---- MODULE Spec2Model ----
(***************************************************************************)
(* A model of the Python core of svZeroDSolver: the model builder          *)
(* (svzerodsolver/utils.py), the generalized-alpha integrator              *)
(* (svzerodsolver/algebra.py) and the driver (svzerodsolver/runner.py).    *)
(*                                                                         *)
(* Representation.                                                         *)
(*  - A Python str that is built, compared or sorted (block, node and      *)
(*    variable names) is a sequence of one-character strings, ordered by   *)
(*    code point (Code).  Strings that are only compared for equality      *)
(*    (dictionary keys, type tags) are TLA+ strings.                       *)
(*  - An optional value (a missing dictionary key, an argument left at     *)
(*    None) is <<>>, a present one <<v>>.                                  *)
(*  - A number of the configuration is a rational [num, den]; a            *)
(*    configuration value is [list, items]: a scalar has list = FALSE and  *)
(*    one item, a Python list has list = TRUE.                             *)
(*  - A residual norm is a natural number in units of 1e-8 (Scale units    *)
(*    are 1.0), or NaN.  The floating-point state vectors y and ydot are   *)
(*    not computed: a vector is [n, s, nan], its length, the number of     *)
(*    step results it descends from (0: the zero vector) and whether it    *)
(*    holds a NaN.  Entry i of a vector is the pair <<vector, i>>.         *)
(*  - Every block carries its element contributions (mat, vec) as the      *)
(*    constructors, update_time and update_solution set them.  An entry    *)
(*    given by the configuration alone is a rational; an entry that        *)
(*    depends on an interpolant or on a vector that is not computed is a   *)
(*    term over them.  The Newton iterates of a first step from np.zeros   *)
(*    on constant contributions are computed in exact rational arithmetic. *)
(***************************************************************************)
EXTENDS Integers, Sequences, FiniteSets, TLC

(***************************************************************************)
(* Bounds of the explored inputs.                                          *)
(***************************************************************************)
MaxPts == 3
MaxCycles == 2
MaxIterGiven == 2
MaxApiSteps == 3
MaxDofCalls == 4
MaxBuilds == 2

(***************************************************************************)
(* Optional values, dictionaries, strings, rationals.                      *)
(***************************************************************************)
None == <<>>
Some(v) == <<v>>
IsNone(o) == Len(o) = 0
Get(o) == o[1]
OrElse(o, d) == IF Len(o) = 0 THEN d ELSE o[1]

Max2(a, b) == IF a >= b THEN a ELSE b

\* code points of the characters that occur in names
Code(c) ==
    CASE c = "0" -> 48 [] c = "1" -> 49 [] c = "2" -> 50 [] c = "3" -> 51
      [] c = "4" -> 52 [] c = "5" -> 53 [] c = "6" -> 54 [] c = "7" -> 55
      [] c = "8" -> 56 [] c = "9" -> 57
      [] c = "B" -> 66 [] c = "C" -> 67 [] c = "J" -> 74 [] c = "P" -> 80
      [] c = "Q" -> 81 [] c = "V" -> 86 [] c = "X" -> 88 [] c = "_" -> 95
      [] c = "a" -> 97 [] c = "e" -> 101 [] c = "i" -> 105 [] c = "l" -> 108
      [] c = "n" -> 110 [] c = "o" -> 111 [] c = "r" -> 114 [] c = "t" -> 116
      [] c = "u" -> 117 [] c = "v" -> 118 [] c = "x" -> 120

IsNumeric(c) == Code(c) >= 48 /\ Code(c) <= 57

DigitChars == <<"0", "1", "2", "3", "4", "5", "6", "7", "8", "9">>

\* str(n) of a natural number
RECURSIVE Str(_)
Str(n) ==
    IF n < 10 THEN <<DigitChars[n + 1]>>
    ELSE Str(n \div 10) \o <<DigitChars[(n % 10) + 1]>>

\* a < b for Python strings
RECURSIVE StrLess(_, _)
StrLess(a, b) ==
    IF Len(a) = 0 THEN Len(b) > 0
    ELSE IF Len(b) = 0 THEN FALSE
    ELSE IF a[1] = b[1] THEN StrLess(Tail(a), Tail(b))
    ELSE Code(a[1]) < Code(b[1])

\* sorted(S) for a set of Python strings
RECURSIVE SortedNames(_)
SortedNames(S) ==
    IF S = {} THEN <<>>
    ELSE LET m == CHOOSE x \in S : \A z \in S \ {x} : StrLess(x, z)
         IN  <<m>> \o SortedNames(S \ {m})

StartsWith(s, c) == Len(s) >= 1 /\ s[1] = c

RECURSIVE GCD(_, _)
GCD(a, b) == IF b = 0 THEN a ELSE GCD(b, a % b)

Abs(x) == IF x < 0 THEN -x ELSE x

\* the rational n/d in lowest terms (d > 0)
Rat(n, d) ==
    LET g == GCD(Abs(n), d)
    IN  IF n = 0 THEN [num |-> 0, den |-> 1]
        ELSE [num |-> n \div g, den |-> d \div g]

R(n) == Rat(n, 1)

RatAdd(a, b) ==
    LET g == GCD(a.den, b.den)
    IN  Rat(a.num * (b.den \div g) + b.num * (a.den \div g), (a.den \div g) * b.den)

Scalar(q) == [list |-> FALSE, items |-> <<q>>]
List(qs) == [list |-> TRUE, items |-> qs]
Ints(ns) == List([i \in 1..Len(ns) |-> R(ns[i])])

RECURSIVE SumRat(_)
SumRat(qs) == IF Len(qs) = 0 THEN R(0) ELSE RatAdd(qs[1], SumRat(Tail(qs)))

\* a Python dict with insertion order: a sequence of [key, val] with distinct keys
DictHas(d, k) == \E i \in 1..Len(d) : d[i].key = k
DictGet(d, k) == d[CHOOSE i \in 1..Len(d) : d[i].key = k].val
DictSet(d, k, v) ==
    IF DictHas(d, k)
    THEN [i \in 1..Len(d) |-> IF d[i].key = k THEN [key |-> k, val |-> v] ELSE d[i]]
    ELSE Append(d, [key |-> k, val |-> v])
DictKeys(d) == {d[i].key : i \in 1..Len(d)}
DictValues(d) == [i \in 1..Len(d) |-> d[i].val]

\* a | b
RECURSIVE DictMerge(_, _)
DictMerge(a, b) ==
    IF Len(b) = 0 THEN a
    ELSE DictMerge(DictSet(a, b[1].key, b[1].val), Tail(b))

\* a mapping with string keys (bc_values, zero_d_element_values)
HasKey(f, k) == k \in DOMAIN f
DelKey(f, k) == [x \in (DOMAIN f) \ {k} |-> f[x]]
SetKey(f, k, v) == [x \in (DOMAIN f) \cup {k} |-> IF x = k THEN v ELSE f[x]]
GetOpt(f, k) == IF k \in DOMAIN f THEN Some(f[k]) ELSE None

RatSub(a, b) ==
    LET g == GCD(a.den, b.den)
    IN  Rat(a.num * (b.den \div g) - b.num * (a.den \div g), (a.den \div g) * b.den)
RatMul(a, b) ==
    LET g == GCD(Abs(a.num), b.den)
        h == GCD(Abs(b.num), a.den)
    IN  Rat((a.num \div g) * (b.num \div h), (a.den \div h) * (b.den \div g))
RatNeg(a) == [num |-> -a.num, den |-> a.den]
RatAbs(a) == [num |-> Abs(a.num), den |-> a.den]
\* a / b for b # 0
RatDiv(a, b) ==
    IF b.num > 0 THEN RatMul(a, [num |-> b.den, den |-> b.num])
    ELSE RatMul(a, [num |-> -b.den, den |-> -b.num])
RatLess(a, b) == a.num * b.den < b.num * a.den

(***************************************************************************)
(* The floating-point numbers of the local and global matrices.  A number  *)
(* that is given by the configuration alone is a rational.  A number that  *)
(* depends on a value the model does not compute is a term over atoms: the *)
(* value of an interpolant at a time (Spline) and an entry of a state      *)
(* vector (Entry).  Arithmetic on rationals is carried out, arithmetic on  *)
(* terms builds the term of the operation.                                 *)
(***************************************************************************)
IsExact(v) == "num" \in DOMAIN v

\* CubicSpline(np.array(times), np.array(values), bc_type="periodic")(time)
Spline(times, values, time) ==
    [op |-> "spline", a |-> [times |-> times, values |-> values], b |-> time]

\* y[dof] of a state vector whose values are not computed
Entry(vector, dof) == [op |-> "entry", a |-> vector, b |-> R(dof)]

Term(op, a, b) == [op |-> op, a |-> a, b |-> b]

Neg(a) == IF IsExact(a) THEN RatNeg(a) ELSE Term("neg", a, R(0))
AbsOf(a) == IF IsExact(a) THEN RatAbs(a) ELSE Term("abs", a, R(0))
Add(a, b) == IF IsExact(a) /\ IsExact(b) THEN RatAdd(a, b) ELSE Term("add", a, b)
Sub(a, b) == IF IsExact(a) /\ IsExact(b) THEN RatSub(a, b) ELSE Term("sub", a, b)
Mul(a, b) == IF IsExact(a) /\ IsExact(b) THEN RatMul(a, b) ELSE Term("mul", a, b)

\* a matrix of r rows and c columns filled with zeros; a matrix with one entry
\* set (rows and columns from 0)
ZeroMatrix(r, c) == [i \in 1..r |-> [j \in 1..c |-> R(0)]]
SetEntry(m, i, j, v) == [m EXCEPT ![i + 1][j + 1] = v]

(***************************************************************************)
(* utils.convert_unsteady_bcs_to_steady                                    *)
(***************************************************************************)
SteadyPts == 11
SteadyCycles == 3

\* bc_identifiers
BcIdentifierTypes == {"FLOW", "PRESSURE", "CORONARY"}
BcIdentifier(bc_type) ==
    CASE bc_type = "FLOW" -> "Q"
      [] bc_type = "PRESSURE" -> "P"
      [] bc_type = "CORONARY" -> "Pim"

\* np.mean of a configuration value
NpMean(v) ==
    IF v.list
    THEN LET s == SumRat(v.items)
         IN  Scalar(Rat(s.num, s.den * Len(v.items)))
    ELSE Scalar(v.items[1])

\* one pass of the loop body over boundary condition bc of the caller's
\* configuration, acting on the copy's entry sbc: [err, val]
SteadyBc(bc, sbc) ==
    LET afterMean ==
            IF bc.bc_type \in BcIdentifierTypes
            THEN LET id == BcIdentifier(bc.bc_type)
                 IN  IF ~HasKey(bc.bc_values, id) THEN [err |-> "KeyError", val |-> sbc]
                     ELSE IF ~HasKey(sbc.bc_values, "t") THEN [err |-> "KeyError", val |-> sbc]
                     ELSE [err |-> "none",
                           val |-> [sbc EXCEPT !.bc_values =
                                      SetKey(DelKey(sbc.bc_values, "t"), id,
                                             NpMean(bc.bc_values[id]))]]
            ELSE [err |-> "none", val |-> sbc]
    IN  IF afterMean.err # "none" THEN afterMean
        ELSE IF bc.bc_type = "RCR"
        THEN [err |-> "none",
              val |-> [afterMean.val EXCEPT !.bc_values = SetKey(@, "C", Scalar(R(0)))]]
        ELSE afterMean

RECURSIVE SteadyBcLoop(_, _, _)
SteadyBcLoop(bcs, sbcs, i) ==
    IF i > Len(bcs) THEN [err |-> "none", val |-> sbcs]
    ELSE LET r == SteadyBc(bcs[i], sbcs[i])
         IN  IF r.err # "none" THEN [err |-> r.err, val |-> sbcs]
             ELSE SteadyBcLoop(bcs, [sbcs EXCEPT ![i] = r.val], i + 1)

\* copy.copy(parameters): a new dictionary that holds the caller's own nested
\* dictionaries and lists
copy(parameters) == [val |-> parameters, shared |-> TRUE]

\* deepcopy(parameters): [val, shared], the copy and whether its nested
\* dictionaries and lists are the caller's own objects
deepcopy(parameters) == [val |-> parameters, shared |-> FALSE]

\* the writes to the copy c, which reach the caller's configuration when the
\* nested objects are shared: [err, val, caller]
SteadyWritten(c, parameters) ==
    LET sim == SetKey(SetKey(c.val.simulation_parameters,
                             "number_of_time_pts_per_cardiac_cycle", SteadyPts),
                      "number_of_cardiac_cycles", SteadyCycles)
        r == SteadyBcLoop(parameters.boundary_conditions,
                          c.val.boundary_conditions, 1)
        written == [c.val EXCEPT !.simulation_parameters = sim,
                                 !.boundary_conditions = r.val]
    IN  [err |-> r.err, val |-> written,
         caller |-> IF c.shared THEN written ELSE parameters]

\* [err, val, caller]: the configuration returned and the caller's
\* configuration after the call
convert_unsteady_bcs_to_steady(parameters) ==
    SteadyWritten(deepcopy(parameters), parameters)

(***************************************************************************)
(* utils.get_solver_params                                                 *)
(***************************************************************************)
DefaultPeriod == R(1)

get_solver_params(parameters) ==
    LET sim == parameters.simulation_parameters
        period == OrElse(GetOpt(sim, "cardiac_cycle_period"), DefaultPeriod)
        cycles == sim["number_of_cardiac_cycles"]
        pts == sim["number_of_time_pts_per_cardiac_cycle"]
    IN  IF ~HasKey(sim, "number_of_time_pts_per_cardiac_cycle")
           \/ ~HasKey(sim, "number_of_cardiac_cycles")
        THEN [err |-> "TypeError", time_step_size |-> R(0), num_time_steps |-> 0]
        ELSE IF pts = 1
        THEN [err |-> "ZeroDivisionError", time_step_size |-> R(0), num_time_steps |-> 0]
        ELSE [err |-> "none",
              time_step_size |-> Rat(period.num, period.den * (pts - 1)),
              num_time_steps |-> (pts - 1) * cycles + 1]

(***************************************************************************)
(* model/block.py, model/junction.py, model/bloodvessel.py and the         *)
(* boundary-condition classes: construction                                *)
(***************************************************************************)
NoEquations == -1

\* Block.__init__: a block with no nodes and no DOF yet
Block(kind, name, params, neq, nint) ==
    [kind |-> kind, name |-> name, params |-> params,
     inflow_nodes |-> <<>>, outflow_nodes |-> <<>>,
     NUM_EQUATIONS |-> neq, NUM_INTERNAL_VARS |-> nint,
     global_row_id |-> <<>>, global_col_id |-> <<>>,
     flat_row_ids |-> <<>>, flat_col_ids |-> <<>>,
     mat |-> [E |-> None, F |-> None, dF |-> None], vec |-> [C |-> None]]

\* a block with its element contributions self._mat and self._vec set (a
\* matrix or vector the block does not have is None)
WithLocal(block, E, F, dF, C) ==
    [block EXCEPT !.mat = [E |-> E, F |-> F, dF |-> dF], !.vec = [C |-> C]]

\* the number that a scalar value of the configuration is
Val(v) == v.items[1]

NoParams == [empty |-> TRUE]

\* The message of an exception: the text of the raise statement and the values
\* formatted into it.  NoMsg is the message of a bare "raise Class"; the text of
\* an exception raised by the interpreter or a library is not modelled
\* (BuiltinMsg).
Msg(text, args) == [text |-> text, args |-> args]
NoMsg == Msg("", <<>>)
BuiltinMsg == Msg("(interpreter)", <<>>)

Ok(b) == [err |-> "none", msg |-> NoMsg, val |-> b]
RaiseMsg(e, m) ==
    [err |-> e, msg |-> m, val |-> Block("none", <<>>, NoParams, NoEquations, 0)]
Raise(e) == RaiseMsg(e, BuiltinMsg)

\* Junction.from_config
Junction_from_config(config) ==
    LET name == config.junction_name
    IN  IF StartsWith(name, "J") THEN Ok(Block("Junction", name, NoParams, NoEquations, 0))
        ELSE IF Len(name) < 2 THEN Raise("IndexError")
        ELSE IF ~IsNumeric(name[2])
        THEN RaiseMsg("ValueError", Msg("Invalid junction name", <<name>>))
        ELSE Ok(Block("Junction", name, NoParams, NoEquations, 0))

\* BloodVessel.__init__: the element contributions
BloodVessel_init(block) ==
    WithLocal(block,
        Some(SetEntry(SetEntry(ZeroMatrix(3, 5), 0, 3, Neg(Val(block.params.L))),
                      1, 4, Neg(Val(block.params.C)))),
        Some(<< <<R(1), Neg(Val(Get(block.params.R))), R(-1), R(0), R(0)>>,
                <<R(0), R(1), R(0), R(-1), R(0)>>,
                <<R(1), Neg(Val(Get(block.params.R))), R(0), R(0), R(-1)>> >>),
        Some(ZeroMatrix(3, 5)),
        None)

\* BloodVessel.from_config and BloodVessel.__init__
BloodVessel_from_config(config) ==
    LET vals == config.zero_d_element_values
        params == [R |-> GetOpt(vals, "R_poiseuille"),
                   C |-> OrElse(GetOpt(vals, "C"), Scalar(R(0))),
                   L |-> OrElse(GetOpt(vals, "L"), Scalar(R(0))),
                   stenosis_coefficient |->
                       OrElse(GetOpt(vals, "stenosis_coefficient"), Scalar(R(0)))]
    IN  IF IsNone(params.R) THEN Raise("TypeError")
        ELSE Ok(BloodVessel_init(
                    Block("BloodVessel", <<"V">> \o Str(config.vessel_id), params, 3, 1)))

\* Block._interpolate: CubicSpline(times, values, bc_type="periodic") needs a time
\* sequence of the length of the values, at least two increasing points and a
\* last value equal to the first
InterpolateOk(times, values) ==
    /\ ~IsNone(times)
    /\ Get(times).list
    /\ Len(Get(times).items) = Len(values.items)
    /\ Len(values.items) >= 2
    /\ \A i \in 1..(Len(values.items) - 1) :
          LET d == RatSub(Get(times).items[i + 1], Get(times).items[i]) IN d.num > 0
    /\ values.items[1] = values.items[Len(values.items)]

\* a parameter that must be a number or an interpolated sequence
ParamError(times, v) ==
    IF IsNone(v) THEN "TypeError"
    ELSE IF Get(v).list /\ ~InterpolateOk(times, Get(v)) THEN "ValueError"
    ELSE "none"

FirstError(errs) ==
    IF \A i \in 1..Len(errs) : errs[i] = "none" THEN "none"
    ELSE errs[CHOOSE i \in 1..Len(errs) :
                 errs[i] # "none" /\ \A j \in 1..(i - 1) : errs[j] = "none"]

BcBlock(kind, config, keys, neq, nint) ==
    LET times == GetOpt(config.bc_values, "t")
        e == FirstError([i \in 1..Len(keys) |->
                            ParamError(times, GetOpt(config.bc_values, keys[i]))])
    IN  IF e # "none" THEN Raise(e)
        ELSE Ok(Block(kind, config.name,
                      [bc_values |-> config.bc_values, steady |-> config.steady],
                      neq, nint))

\* isinstance(self._params[key], Sequence)
IsList(vals, key) == HasKey(vals, key) /\ vals[key].list

\* self._interpolate(self._params["time"], self._params[key])(time)
Interpolant(vals, key, time) == Spline(vals["t"].items, vals[key].items, time)

\* the element contributions that the constructors of the boundary conditions
\* set, for a block b whose parameters passed
ResistanceBC_init_plus(b) ==
    LET vals == b.params.bc_values
    IN  WithLocal(b, None,
            Some(<< <<R(1), IF vals["R"].list THEN R(0) ELSE Neg(Val(vals["R"]))>> >>),
            None,
            Some(<<IF vals["Pd"].list THEN R(0) ELSE Val(vals["Pd"])>>))

ResistanceBC_init(b) ==
    LET vals == b.params.bc_values
    IN  WithLocal(b, None,
            Some(<< <<R(1), IF vals["R"].list THEN R(0) ELSE Neg(Val(vals["R"]))>> >>),
            None,
            Some(<<IF vals["Pd"].list THEN R(0) ELSE Neg(Val(vals["Pd"]))>>))

WindkesselBC_init(b) ==
    LET vals == b.params.bc_values
        static == \A key \in {"Rp", "C", "Rd", "Pd"} : ~IsList(vals, key)
    IN  IF static
        THEN WithLocal(b,
                Some(SetEntry(ZeroMatrix(2, 3), 1, 2,
                              Mul(Neg(Val(vals["Rd"])), Val(vals["C"])))),
                Some(<< <<R(1), Neg(Val(vals["Rp"])), R(-1)>>,
                        <<R(0), Val(vals["Rd"]), R(-1)>> >>),
                None,
                Some(<<R(0), Val(vals["Pd"])>>))
        ELSE WithLocal(b,
                Some(ZeroMatrix(2, 3)),
                Some(<< <<R(1), R(0), R(-1)>>, <<R(0), R(0), R(-1)>> >>),
                None,
                Some(<<R(0), R(0)>>))

FlowReferenceBC_init(b) ==
    LET vals == b.params.bc_values
    IN  WithLocal(b, None, Some(<< <<R(0), R(1)>> >>), None,
            Some(<<IF vals["Q"].list THEN R(0) ELSE Neg(Val(vals["Q"]))>>))

PressureReferenceBC_init(b) ==
    LET vals == b.params.bc_values
    IN  WithLocal(b, None, Some(<< <<R(1), R(0)>> >>), None,
            Some(<<IF vals["P"].list THEN R(0) ELSE Neg(Val(vals["P"]))>>))

\* C[0] and C[1] of OpenLoopCoronaryBC for the values Pim and Pv
CoronaryC(vals, Pim, Pv) ==
    <<Add(Mul(Neg(Val(vals["Cc"])), Pim), Mul(Val(vals["Cc"]), Pv)),
      Add(Mul(Mul(Neg(Val(vals["Cc"])), Add(Val(vals["Rv1"]), Val(vals["Ra2"]))), Pim),
          Mul(Mul(Val(vals["Ra2"]), Val(vals["Cc"])), Pv))>>

OpenLoopCoronaryBC_init(b) ==
    LET vals == b.params.bc_values
        Ra == Val(vals["Ra1"])
        Ca == Val(vals["Ca"])
        Ram == Val(vals["Ra2"])
        Cim == Val(vals["Cc"])
        Rv == Val(vals["Rv1"])
        Cim_Rv == Mul(Cim, Rv)
        static == ~vals["Pim"].list /\ ~vals["P_v"].list
    IN  IF b.params.steady
        THEN WithLocal(b, None,
                Some(<< <<Neg(Cim), Mul(Cim, Add(Ra, Ram)), R(1)>>,
                        <<R(-1), Add(Add(Ra, Ram), Rv), R(0)>> >>),
                None,
                Some(<<Mul(Neg(Cim), Val(vals["Pim"])), Val(vals["P_v"])>>))
        ELSE WithLocal(b,
                Some(<< <<Mul(Neg(Ca), Cim_Rv), Mul(Mul(Ra, Ca), Cim_Rv), Neg(Cim_Rv)>>,
                        <<R(0), R(0), Mul(Neg(Cim_Rv), Ram)>> >>),
                Some(<< <<R(0), Cim_Rv, R(-1)>>,
                        <<Cim_Rv, Mul(Neg(Cim_Rv), Ra), Neg(Add(Rv, Ram))>> >>),
                None,
                Some(IF static THEN CoronaryC(vals, Val(vals["Pim"]), Val(vals["P_v"]))
                     ELSE <<R(0), R(0)>>))

ResistanceBC_from_config(config) ==
    IF BcBlock("ResistanceBC", config, <<"R", "Pd">>, 1, 0).err # "none"
    THEN BcBlock("ResistanceBC", config, <<"R", "Pd">>, 1, 0)
    ELSE Ok(ResistanceBC_init(BcBlock("ResistanceBC", config, <<"R", "Pd">>, 1, 0).val))
\* WindkesselBC.__init__ computes with the parameters only when none is a sequence
WindkesselBC_from_config(config) ==
    LET keys == <<"Rp", "C", "Rd", "Pd">>
        vals == [i \in 1..4 |-> GetOpt(config.bc_values, keys[i])]
        times == GetOpt(config.bc_values, "t")
        e == FirstError([i \in 1..4 |->
                 IF ~IsNone(vals[i]) /\ Get(vals[i]).list
                       /\ ~InterpolateOk(times, Get(vals[i]))
                 THEN "ValueError" ELSE "none"])
        allScalar == \A i \in 1..4 : IsNone(vals[i]) \/ ~Get(vals[i]).list
    IN  IF e # "none" THEN Raise(e)
        ELSE IF allScalar /\ \E i \in 1..4 : IsNone(vals[i]) THEN Raise("TypeError")
        ELSE Ok(WindkesselBC_init(
                    Block("WindkesselBC", config.name,
                          [bc_values |-> config.bc_values, steady |-> config.steady], 2, 1)))
FlowReferenceBC_from_config(config) ==
    IF BcBlock("FlowReferenceBC", config, <<"Q">>, 1, 0).err # "none"
    THEN BcBlock("FlowReferenceBC", config, <<"Q">>, 1, 0)
    ELSE Ok(FlowReferenceBC_init(BcBlock("FlowReferenceBC", config, <<"Q">>, 1, 0).val))
PressureReferenceBC_from_config(config) ==
    IF BcBlock("PressureReferenceBC", config, <<"P">>, 1, 0).err # "none"
    THEN BcBlock("PressureReferenceBC", config, <<"P">>, 1, 0)
    ELSE Ok(PressureReferenceBC_init(
                BcBlock("PressureReferenceBC", config, <<"P">>, 1, 0).val))

CoronaryKeys == {"Ra1", "Ca", "Ra2", "Cc", "Rv1", "Pim", "P_v"}

\* OpenLoopCoronaryBC.from_config and __init__ with nint internal variables
CoronaryBlock(config, nint) ==
    IF ~(CoronaryKeys \subseteq DOMAIN config.bc_values) THEN Raise("KeyError")
    ELSE LET b == BcBlock("OpenLoopCoronaryBC", config, <<"P_v", "Pim">>, 2, nint)
         IN  IF b.err # "none" THEN b
             \* steady: C[0] = -Cim * Pim and C[1] = Pv need numbers
             ELSE IF config.steady /\ config.bc_values["Pim"].list THEN Raise("TypeError")
             ELSE IF config.steady /\ config.bc_values["P_v"].list THEN Raise("ValueError")
             ELSE Ok(OpenLoopCoronaryBC_init(b.val))

OpenLoopCoronaryBC_steady_reduced(config) ==
    CoronaryBlock(config, IF config.steady THEN 0 ELSE 1)

OpenLoopCoronaryBC_from_config(config) == CoronaryBlock(config, 1)

(***************************************************************************)
(* utils.create_junction_blocks                                            *)
(***************************************************************************)
VesselName(vid) == <<"V">> \o Str(vid)

RECURSIVE JunctionLoop(_, _, _, _)
JunctionLoop(junctions, i, block_dict, connections) ==
    IF i > Len(junctions)
    THEN [err |-> "none", msg |-> NoMsg, block_dict |-> block_dict,
          connections |-> connections]
    ELSE
      LET config == junctions[i]
          fail(e, m) == [err |-> e, msg |-> m, block_dict |-> block_dict,
                         connections |-> connections]
      IN  IF config.junction_type \notin {"NORMAL_JUNCTION", "internal_junction"}
          THEN fail("ValueError", Msg("Unknown junction type", <<config.junction_type>>))
          ELSE
            LET j == Junction_from_config(config) IN
            IF j.err # "none" THEN fail(j.err, j.msg)
            ELSE
              LET junction == j.val
                  ins == [k \in 1..Len(config.inlet_vessels) |->
                             <<VesselName(config.inlet_vessels[k]), junction.name>>]
                  outs == [k \in 1..Len(config.outlet_vessels) |->
                             <<junction.name, VesselName(config.outlet_vessels[k])>>]
              IN  IF DictHas(block_dict, junction.name)
                  THEN fail("RuntimeError", Msg("Junction already exists", <<junction.name>>))
                  ELSE JunctionLoop(junctions, i + 1,
                                    DictSet(block_dict, junction.name, junction),
                                    connections \o ins \o outs)

create_junction_blocks(parameters) == JunctionLoop(parameters.junctions, 1, <<>>, <<>>)

(***************************************************************************)
(* utils.create_vessel_blocks                                              *)
(***************************************************************************)
LocationName(location) ==
    IF location = "inlet" THEN <<"i", "n", "l", "e", "t">>
    ELSE <<"o", "u", "t", "l", "e", "t">>

BcName(vessel_id, location) ==
    <<"B", "C">> \o Str(vessel_id) \o <<"_">> \o LocationName(location)

BcLookupOrFirst(bcs, bc_name) ==
    IF \E i \in 1..Len(bcs) : bcs[i].bc_name = bc_name
    THEN CHOOSE i \in 1..Len(bcs) :
            bcs[i].bc_name = bc_name /\ \A j \in 1..(i - 1) : bcs[j].bc_name # bc_name
    ELSE IF Len(bcs) > 0 THEN 1 ELSE 0

\* the first boundary condition named bc_name: the index, 0 when there is none
BcLookup(bcs, bc_name) ==
    IF \E i \in 1..Len(bcs) : bcs[i].bc_name = bc_name
    THEN CHOOSE i \in 1..Len(bcs) :
            bcs[i].bc_name = bc_name /\ \A j \in 1..(i - 1) : bcs[j].bc_name # bc_name
    ELSE 0

\* the dispatch on bc_type
BcFromConfig(bc_config) ==
    CASE bc_config.bc_type = "RESISTANCE" -> ResistanceBC_from_config(bc_config)
      [] bc_config.bc_type = "RCR" -> WindkesselBC_from_config(bc_config)
      [] bc_config.bc_type = "FLOW" -> FlowReferenceBC_from_config(bc_config)
      [] bc_config.bc_type = "PRESSURE" -> PressureReferenceBC_from_config(bc_config)
      [] bc_config.bc_type = "CORONARY" -> OpenLoopCoronaryBC_from_config(bc_config)
      [] OTHER -> RaiseMsg("NotImplementedError", NoMsg)

\* the text of the RuntimeError on boundary conditions of different periods
PeriodMismatch ==
    "The time series of the boundary condition for segment {vessel_id} does not have the same cardiac cycle period as the other boundary conditions."

LastTime(t) == t[Len(t)]

\* bc_config["bc_values"]["t"][-1] - bc_config["bc_values"]["t"][0]
TimeSpan(t) == RatSub(t[Len(t)], t[1])

PeriodSame(cardiac_cycle_period, given) == cardiac_cycle_period = given

\* cardiac_cycle_period != parameters["simulation_parameters"]["cardiac_cycle_period"]
PeriodDiffers(cardiac_cycle_period, given) == cardiac_cycle_period # given

\* The body of "for location in locations" for one location. st is the state of
\* the enclosing function: [err, msg, block_dict, connections, sim, bc_config], where
\* bc_config is the local variable of that name (None until first bound).
LocationStep(st, bcs, steady, vessel_config, location) ==
    LET vessel_id == vessel_config.vessel_id
        found == BcLookup(bcs, Get(Get(vessel_config.boundary_conditions)[location]))
        bc_config ==
            IF found # 0
            THEN Some([name |-> BcName(vessel_id, location), steady |-> steady,
                       bc_name |-> bcs[found].bc_name, bc_type |-> bcs[found].bc_type,
                       bc_values |-> bcs[found].bc_values])
            ELSE st.bc_config
    IN  IF IsNone(bc_config)
        THEN [st EXCEPT !.err = "UnboundLocalError", !.msg = BuiltinMsg]
        ELSE
          LET cfg == Get(bc_config)
              vals == cfg.bc_values
              hasSeries == HasKey(vals, "t") /\ vals["t"].list /\ Len(vals["t"].items) >= 2
              period == TimeSpan(vals["t"].items)
              hasPeriod == HasKey(st.sim, "cardiac_cycle_period")
              sim2 == IF hasSeries /\ ~hasPeriod
                      THEN SetKey(st.sim, "cardiac_cycle_period", period)
                      ELSE st.sim
          IN  IF hasSeries /\ hasPeriod
                    /\ PeriodDiffers(period, st.sim["cardiac_cycle_period"])
              THEN [st EXCEPT !.err = "RuntimeError",
                              !.msg = Msg(PeriodMismatch, <<vessel_id>>),
                              !.bc_config = bc_config]
              ELSE
                LET bc == BcFromConfig(cfg) IN
                IF bc.err # "none"
                THEN [st EXCEPT !.err = bc.err, !.msg = bc.msg, !.sim = sim2,
                                !.bc_config = bc_config]
                ELSE [st EXCEPT !.sim = sim2, !.bc_config = bc_config,
                                !.block_dict = DictSet(@, bc.val.name, bc.val)]

RECURSIVE LocationLoop(_, _, _, _, _)
LocationLoop(st, bcs, steady, vessel_config, locations) ==
    IF Len(locations) = 0 \/ st.err # "none" THEN st
    ELSE LocationLoop(LocationStep(st, bcs, steady, vessel_config, locations[1]),
                      bcs, steady, vessel_config, Tail(locations))

Locations(vessel_config) ==
    IF IsNone(vessel_config.boundary_conditions) THEN <<>>
    ELSE LET b == Get(vessel_config.boundary_conditions)
         IN  (IF IsNone(b["inlet"]) THEN <<>> ELSE <<"inlet">>)
             \o (IF IsNone(b["outlet"]) THEN <<>> ELSE <<"outlet">>)

\* the body of "for vessel_config in parameters['vessels']"
VesselStep(st, bcs, steady, vessel_config) ==
    IF vessel_config.zero_d_element_type # "BloodVessel"
    THEN [st EXCEPT !.err = "NotImplementedError", !.msg = NoMsg]
    ELSE
      LET v == BloodVessel_from_config(vessel_config) IN
      IF v.err # "none" THEN [st EXCEPT !.err = v.err, !.msg = v.msg]
      ELSE
        LET vessel == v.val
            locs == Locations(vessel_config)
            conns == [k \in 1..Len(locs) |->
                        IF locs[k] = "inlet"
                        THEN <<BcName(vessel_config.vessel_id, "inlet"), vessel.name>>
                        ELSE <<vessel.name, BcName(vessel_config.vessel_id, "outlet")>>]
            st1 == [st EXCEPT !.connections = @ \o conns]
        IN  IF DictHas(st.block_dict, vessel.name)
            THEN [st1 EXCEPT !.err = "RuntimeError",
                             !.msg = Msg("Vessel already exists", <<vessel.name>>)]
            ELSE LocationLoop([st1 EXCEPT !.block_dict = DictSet(@, vessel.name, vessel)],
                              bcs, steady, vessel_config, locs)

RECURSIVE VesselLoop(_, _, _, _, _)
VesselLoop(st, bcs, steady, vessels, i) ==
    IF i > Len(vessels) \/ st.err # "none" THEN st
    ELSE VesselLoop(VesselStep(st, bcs, steady, vessels[i]), bcs, steady, vessels, i + 1)

\* [err, msg, block_dict, connections, sim]: sim is parameters["simulation_parameters"]
\* as the function leaves it
create_vessel_blocks(parameters, steady) ==
    VesselLoop([err |-> "none", msg |-> NoMsg, block_dict |-> <<>>, connections |-> <<>>,
                sim |-> parameters.simulation_parameters, bc_config |-> None],
               parameters.boundary_conditions, steady, parameters.vessels, 1)

(***************************************************************************)
(* model/dofhandler.py, model/node.py, Block.setup_dofs, utils.create_blocks*)
(***************************************************************************)
\* DOFHandler.__init__
DOFHandler == [var_counter |-> -1, eqn_counter |-> -1, variables |-> <<>>]

\* DOFHandler.n
DofN(dofhandler) == dofhandler.eqn_counter + 1

register_variable_one_based(dofhandler, name) ==
    [dofhandler |-> [dofhandler EXCEPT !.var_counter = @ + 1,
                                       !.variables = Append(@, name)],
     id |-> dofhandler.var_counter + 2]

\* DOFHandler.register_variable: [dofhandler, id], the handler after the call and
\* the global id returned
register_variable(dofhandler, name) ==
    [dofhandler |-> [dofhandler EXCEPT !.var_counter = @ + 1,
                                       !.variables = Append(@, name)],
     id |-> dofhandler.var_counter + 1]

register_equation_uncounted(dofhandler) ==
    [dofhandler |-> dofhandler, id |-> dofhandler.eqn_counter + 1]

\* DOFHandler.register_equation: [dofhandler, id]
register_equation(dofhandler) ==
    [dofhandler |-> [dofhandler EXCEPT !.eqn_counter = @ + 1],
     id |-> dofhandler.eqn_counter + 1]

\* [dofhandler.register_equation() for _ in range(count)], ids being the list
\* built so far: [dofhandler, ids]
RECURSIVE register_equations(_, _, _)
register_equations(dofhandler, count, ids) ==
    IF count <= 0 THEN [dofhandler |-> dofhandler, ids |-> ids]
    ELSE register_equations(register_equation(dofhandler).dofhandler, count - 1,
                            Append(ids, register_equation(dofhandler).id))

\* "Q_" + self.name and "P_" + self.name
FlowVarName(name) == <<"Q", "_">> \o name
PresVarName(name) == <<"P", "_">> \o name

\* the handler after Node.setup_dofs
NodeDofs(dofhandler, name) ==
    register_variable(register_variable(dofhandler, FlowVarName(name)).dofhandler,
                      PresVarName(name)).dofhandler

NodePressureFirst(name, dofhandler) ==
    [name |-> name,
     flow_dof |-> register_variable(
                      register_variable(dofhandler, FlowVarName(name)).dofhandler,
                      PresVarName(name)).id,
     pres_dof |-> register_variable(dofhandler, FlowVarName(name)).id]

\* Node.__init__ and Node.setup_dofs: the node with its two DOF
Node(name, dofhandler) ==
    [name |-> name,
     flow_dof |-> register_variable(dofhandler, FlowVarName(name)).id,
     pres_dof |-> register_variable(
                      register_variable(dofhandler, FlowVarName(name)).dofhandler,
                      PresVarName(name)).id]

\* the loop over the connections: [err, block_dict, dofhandler]
RECURSIVE NodeLoop(_, _, _)
NodeLoop(connections, all_blocks, dofhandler) ==
    IF Len(connections) = 0
    THEN [err |-> "none", block_dict |-> all_blocks, dofhandler |-> dofhandler]
    ELSE
      LET ele1_name == connections[1][1]
          ele2_name == connections[1][2]
      IN  IF ~DictHas(all_blocks, ele1_name) \/ ~DictHas(all_blocks, ele2_name)
          THEN [err |-> "KeyError", block_dict |-> all_blocks, dofhandler |-> dofhandler]
          ELSE
            LET node == Node(ele1_name \o <<"_">> \o ele2_name, dofhandler)
                b1 == DictSet(all_blocks, ele1_name,
                        [DictGet(all_blocks, ele1_name) EXCEPT
                            !.outflow_nodes = Append(@, node)])
                b2 == DictSet(b1, ele2_name,
                        [DictGet(b1, ele2_name) EXCEPT !.inflow_nodes = Append(@, node)])
            IN  NodeLoop(Tail(connections), b2, NodeDofs(dofhandler, node.name))

RECURSIVE InternalVarNames(_, _, _)
InternalVarNames(name, i, count) ==
    IF i >= count THEN <<>>
    ELSE <<(<<"v", "a", "r", "_">> \o Str(i) \o <<"_">> \o name)>>
         \o InternalVarNames(name, i + 1, count)

\* [dofhandler.register_variable(name) for name in names], ids being the list
\* built so far: [dofhandler, ids]
RECURSIVE RegisterAll(_, _, _)
RegisterAll(dofhandler, names, ids) ==
    IF Len(names) = 0 THEN [dofhandler |-> dofhandler, ids |-> ids]
    ELSE RegisterAll(register_variable(dofhandler, names[1]).dofhandler, Tail(names),
                     Append(ids, register_variable(dofhandler, names[1]).id))

RECURSIVE WireCols(_)
WireCols(nodes) ==
    IF Len(nodes) = 0 THEN <<>>
    ELSE <<nodes[1].pres_dof, nodes[1].flow_dof>> \o WireCols(Tail(nodes))

\* np.meshgrid(x, y) with the default indexing "xy": two arrays of shape
\* (len(y), len(x)), X[i][j] = x[j] and Y[i][j] = y[i]
Meshgrid(x, y) ==
    [X |-> [i \in 1..Len(y) |-> [j \in 1..Len(x) |-> x[j]]],
     Y |-> [i \in 1..Len(y) |-> [j \in 1..Len(x) |-> y[i]]]]

\* np.array(grids).T.reshape(-1, 2) of two arrays of shape (a, b): the array
\* of shape (2, a, b) transposed has shape (b, a, 2), entry [j][i] being
\* (X[i][j], Y[i][j]); reshape lists these pairs row by row.  The columns
\* [:, 0] and [:, 1] of the result.
FlatPairsUntransposed(grids, a, b) ==
    [first |-> [k \in 1..(a * b) |->
                   grids.X[((k - 1) \div b) + 1][((k - 1) % b) + 1]],
     second |-> [k \in 1..(a * b) |->
                   grids.Y[((k - 1) \div b) + 1][((k - 1) % b) + 1]]]

FlatPairs(grids, a, b) ==
    [first |-> [k \in 1..(a * b) |->
                   grids.X[((k - 1) % a) + 1][((k - 1) \div a) + 1]],
     second |-> [k \in 1..(a * b) |->
                   grids.Y[((k - 1) % a) + 1][((k - 1) \div a) + 1]]]

\* the flat indices of Block.setup_dofs: [flat_row_ids, flat_col_ids]
FlatIds(global_row_id, global_col_id) ==
    LET flat == FlatPairs(Meshgrid(global_row_id, global_col_id),
                          Len(global_col_id), Len(global_row_id))
    IN  [flat_row_ids |-> flat.first, flat_col_ids |-> flat.second]

\* Block.setup_dofs from the registrations on: iv and eq are what the
\* registration of the internal variables and of the equations yielded
BlockDofsSet(block, iv, eq) ==
    [block |-> [block EXCEPT
                   !.global_row_id = eq.ids,
                   !.global_col_id = WireCols(block.inflow_nodes)
                                       \o WireCols(block.outflow_nodes) \o iv.ids,
                   !.flat_row_ids =
                       FlatIds(eq.ids, WireCols(block.inflow_nodes)
                                         \o WireCols(block.outflow_nodes)
                                         \o iv.ids).flat_row_ids,
                   !.flat_col_ids =
                       FlatIds(eq.ids, WireCols(block.inflow_nodes)
                                         \o WireCols(block.outflow_nodes)
                                         \o iv.ids).flat_col_ids],
     dofhandler |-> eq.dofhandler]

\* Block.setup_dofs from the registration of the equations on
InternalVarsRegistered(block, iv) ==
    BlockDofsSet(block, iv, register_equations(iv.dofhandler, block.NUM_EQUATIONS, <<>>))

\* Block.setup_dofs: [block, dofhandler]
Block_setup_dofs(block, dofhandler) ==
    InternalVarsRegistered(block,
        RegisterAll(dofhandler,
                    InternalVarNames(block.name, 0, block.NUM_INTERNAL_VARS), <<>>))

\* Junction.setup_dofs: [err, block, dofhandler]
JunctionF_all_outflow(num_inlets, num_outlets) ==
    LET n == num_inlets + num_outlets
    IN  [i \in 1..n |-> [j \in 1..(2 * n) |->
            IF i < n
            THEN IF j - 1 = 2 * (i - 1) + 2 THEN R(-1)
                 ELSE IF j - 1 = 0 THEN R(1)
                 ELSE R(0)
            ELSE IF (j - 1) % 2 = 1
                 THEN IF (j - 2) \div 2 < 0 THEN R(1) ELSE R(-1)
                 ELSE R(0)]]

\* the F that Junction.setup_dofs sets: row i of the first n - 1 rows has 1 in
\* column 0 and -1 in column 2i + 2, the last row has 1 in the odd columns of
\* the inlets and -1 in the odd columns of the outlets
JunctionF(num_inlets, num_outlets) ==
    LET n == num_inlets + num_outlets
    IN  [i \in 1..n |-> [j \in 1..(2 * n) |->
            IF i < n
            THEN IF j - 1 = 2 * (i - 1) + 2 THEN R(-1)
                 ELSE IF j - 1 = 0 THEN R(1)
                 ELSE R(0)
            ELSE IF (j - 1) % 2 = 1
                 THEN IF (j - 2) \div 2 < num_inlets THEN R(1) ELSE R(-1)
                 ELSE R(0)]]

Junction_setup_dofs(block, dofhandler) ==
    LET n == Len(block.inflow_nodes) + Len(block.outflow_nodes)
        r == Block_setup_dofs([block EXCEPT !.NUM_EQUATIONS = n], dofhandler)
    IN  [err |-> IF n = 0 THEN "IndexError" ELSE "none",
         block |-> IF n = 0 THEN r.block
                   ELSE [r.block EXCEPT !.mat.F =
                            Some(JunctionF(Len(block.inflow_nodes),
                                           Len(block.outflow_nodes)))],
         dofhandler |-> r.dofhandler]

\* for key in sorted(all_blocks): all_blocks[key].setup_dofs(dofhandler)
RECURSIVE SetupLoop(_, _, _)
SetupLoop(keys, all_blocks, dofhandler) ==
    IF Len(keys) = 0
    THEN [err |-> "none", block_dict |-> all_blocks, dofhandler |-> dofhandler]
    ELSE
      LET block == DictGet(all_blocks, keys[1])
          r == IF block.kind = "Junction"
               THEN Junction_setup_dofs(block, dofhandler)
               ELSE [err |-> "none"] @@ Block_setup_dofs(block, dofhandler)
      IN  IF r.err # "none"
          THEN [err |-> r.err, block_dict |-> all_blocks, dofhandler |-> r.dofhandler]
          ELSE SetupLoop(Tail(keys), DictSet(all_blocks, keys[1], r.block), r.dofhandler)

\* what create_blocks yields: [err, msg, block_list, dofhandler, sim], sim being
\* parameters["simulation_parameters"] as create_vessel_blocks leaves it
CreateFailed(e, m, sim) ==
    [err |-> e, msg |-> m, block_list |-> <<>>, dofhandler |-> DOFHandler, sim |-> sim]

\* create_blocks, its return: sd is the outcome of the loop over the sorted keys
BlocksSetUp(sd, sim) ==
    IF sd.err # "none" THEN CreateFailed(sd.err, BuiltinMsg, sim)
    ELSE [err |-> "none", msg |-> NoMsg, block_list |-> DictValues(sd.block_dict),
          dofhandler |-> sd.dofhandler, sim |-> sim]

\* create_blocks, its second loop: nd is the outcome of the loop over the
\* connections
BlocksConnected(nd, sim) ==
    IF nd.err # "none" THEN CreateFailed(nd.err, BuiltinMsg, sim)
    ELSE BlocksSetUp(SetupLoop(SortedNames(DictKeys(nd.block_dict)),
                               nd.block_dict, nd.dofhandler), sim)

\* create_blocks from the merge on: j and v are what create_junction_blocks and
\* create_vessel_blocks yield
BlocksCreated(j, v) ==
    IF v.err # "none" THEN CreateFailed(v.err, v.msg, v.sim)
    ELSE BlocksConnected(NodeLoop(j.connections \o v.connections,
                                  DictMerge(j.block_dict, v.block_dict), DOFHandler),
                         v.sim)

\* create_blocks from its second statement on
JunctionsCreated(j, parameters, steady) ==
    IF j.err # "none" THEN CreateFailed(j.err, j.msg, parameters.simulation_parameters)
    ELSE BlocksCreated(j, create_vessel_blocks(parameters, steady))

create_blocks(parameters, steady) ==
    JunctionsCreated(create_junction_blocks(parameters), parameters, steady)

(***************************************************************************)
(* algebra.py: GeneralizedAlpha and run_integrator                         *)
(***************************************************************************)
\* 1.0 in the unit of residuals and tolerances (1e-8)
Scale == 10^8

\* GeneralizedAlpha.__init__ defaults: atol=1e-8, max_iter=30
DefaultAtol == 1
DefaultMaxIter == 30

\* run_integrator defaults: atol=10 - 8, max_iter=30
RunIntegratorDefaultAtol == (10 - 8) * Scale
RunIntegratorDefaultMaxIter == 30

\* run_from_config: sim_params.get("absolute_tolerance", 1e-8) and
\* sim_params.get("maximum_nonlinear_iterations", 30)
RunnerDefaultAtol == 1
RunnerDefaultMaxIter == 30

\* GeneralizedAlpha.__init__
GeneralizedAlpha(n, time_step_size, atol, max_iter) ==
    [n |-> n, time_step_size |-> time_step_size,
     atol |-> OrElse(atol, DefaultAtol), max_iter |-> OrElse(max_iter, DefaultMaxIter)]

\* np.zeros(n) as y ("y") or ydot ("ydot")
Zeros(n, d) == [n |-> n, d |-> d, init |-> "zeros", s |-> 0, time |-> None, nan |-> FALSE]

\* an initial vector passed by the caller
GivenVector(n, d, nan) ==
    [n |-> n, d |-> d, init |-> "given", s |-> 0, time |-> None, nan |-> nan]

\* The vector that step returns for v at the time-th point of time_steps: the
\* s-th step result of its chain.
StepResult(v, time, nan) == [v EXCEPT !.s = @ + 1, !.time = Some(time), !.nan = nan]

\* the part of a step size that is not a power of two
RECURSIVE OddPart(_)
OddPart(m) == IF m % 2 = 0 THEN OddPart(m \div 2) ELSE m

\* np.arange(0.0, num_time_steps * time_step_size, time_step_size) has
\* ceil((num_time_steps * time_step_size - 0.0) / time_step_size) elements, in
\* IEEE double arithmetic: the product is rounded, and where it is rounded up
\* the quotient exceeds num_time_steps.  These are the cases for
\* num_time_steps < 40 and time_step_size = 2^j / m, m <= 12 (a scaling by a
\* power of two is exact, so only the odd part of m matters).
ArangeRoundsUp(num_time_steps, time_step_size) ==
    LET m == OddPart(time_step_size.den)
    IN  \/ m = 5 /\ num_time_steps \in {3, 6, 12, 24, 29}
        \/ m = 9 /\ num_time_steps \in {5, 10, 20}
        \/ m = 11 /\ num_time_steps \in {15, 30}

ArangeLen(num_time_steps, time_step_size) ==
    IF ArangeRoundsUp(num_time_steps, time_step_size)
    THEN num_time_steps + 1 ELSE num_time_steps

\* the width of the element matrices a block assembles
MatColumns(block) ==
    CASE block.kind = "BloodVessel" -> 5
      [] block.kind = "Junction" -> 2 * block.NUM_EQUATIONS
      [] block.kind \in {"WindkesselBC", "OpenLoopCoronaryBC"} -> 3
      [] OTHER -> 2

\* Block.assemble: mat[key][flat_row_ids, flat_col_ids] = value.ravel() needs as
\* many columns as the element matrix has, and columns inside the global matrix
BlockAssembleError(block, n) ==
    IF Len(block.global_col_id) # MatColumns(block) THEN "ValueError"
    ELSE IF \E c \in 1..Len(block.global_col_id) : block.global_col_id[c] >= n
    THEN "IndexError"
    ELSE "none"

AssembleError(blocks, n) ==
    FirstError([i \in 1..Len(blocks) |-> BlockAssembleError(blocks[i], n)])

\* The global system self.mat of the integrator.  F stands for each of the
\* matrices (a block writes all of its matrices through the same flat indices),
\* C is the vector.  Both map the positions written so far to what they hold:
\* the local entry (i, j) of a block as <<name, i, j>>, the local entry i of its
\* vector as <<name, i>>; every other position holds the zero of np.zeros.
NoMat == [F |-> <<>>, C |-> <<>>]

\* the blocks that have a vector C in self._vec
HasVecC(block) == block.kind \notin {"Junction", "BloodVessel"}

\* mat[key][self._global_row_id] = value
AssembleVec(block, C) ==
    LET rows == {<<block.global_row_id[i]>> : i \in 1..Len(block.global_row_id)}
    IN  [p \in (DOMAIN C) \cup rows |->
            IF p \in rows
            THEN <<block.name, (CHOOSE i \in 1..Len(block.global_row_id) :
                                  block.global_row_id[i] = p[1]) - 1>>
            ELSE C[p]]

\* mat[key][self._flat_row_ids, self._flat_col_ids] = value.ravel(): entry k of
\* the flattened element matrix, which has cols columns, goes to the k-th
\* position; of entries that go to one position the last stays
AssembleMat(block, F, cols) ==
    LET K == Len(block.flat_row_ids)
        written == {<<block.flat_row_ids[x], block.flat_col_ids[x]>> : x \in 1..K}
    IN  [p \in (DOMAIN F) \cup written |->
            IF p \in written
            THEN LET last == CHOOSE x \in 1..K :
                                /\ <<block.flat_row_ids[x], block.flat_col_ids[x]>> = p
                                /\ \A z \in (x + 1)..K :
                                      <<block.flat_row_ids[z], block.flat_col_ids[z]>> # p
                 IN  <<block.name, (last - 1) \div cols, (last - 1) % cols>>
            ELSE F[p]]

\* Block.assemble: the vectors, then the matrices
Block_assemble(block, mat, n) ==
    [F |-> IF BlockAssembleError(block, n) = "none"
           THEN AssembleMat(block, mat.F, MatColumns(block)) ELSE mat.F,
     C |-> IF HasVecC(block) THEN AssembleVec(block, mat.C) ELSE mat.C]

\* GeneralizedAlpha.assemble: the global system after the loop over the blocks,
\* left by the first block that raises
RECURSIVE GeneralizedAlpha_assemble(_, _, _)
GeneralizedAlpha_assemble(blocks, mat, n) ==
    IF Len(blocks) = 0 THEN mat
    ELSE IF BlockAssembleError(blocks[1], n) # "none"
    THEN Block_assemble(blocks[1], mat, n)
    ELSE GeneralizedAlpha_assemble(Tail(blocks), Block_assemble(blocks[1], mat, n), n)

\* [err, block]: the block after update_time(time), or as the call that
\* raised left it.  A block whose parameters are all numbers has the empty
\* update_time of Block; the others call every interpolant, and an
\* interpolant that was not created is None.
ResistanceBC_update_time(block, time) ==
    LET vals == block.params.bc_values
        b1 == [block EXCEPT !.mat.F = Some(SetEntry(Get(@), 0, 1,
                                            Neg(Interpolant(vals, "R", time))))]
    IN  IF ~IsList(vals, "R") /\ ~IsList(vals, "Pd") THEN [err |-> "none", block |-> block]
        ELSE IF ~IsList(vals, "R") THEN [err |-> "TypeError", block |-> block]
        ELSE IF ~IsList(vals, "Pd") THEN [err |-> "TypeError", block |-> b1]
        ELSE [err |-> "none",
              block |-> [b1 EXCEPT !.vec.C = Some([Get(@) EXCEPT ![1] =
                                             Neg(Interpolant(vals, "Pd", time))])]]

WindkesselBC_update_time(block, time) ==
    LET vals == block.params.bc_values
        rd_t == Interpolant(vals, "Rd", time)
        b1 == [block EXCEPT !.mat.E = Some(SetEntry(Get(@), 1, 2,
                                Mul(Neg(rd_t), Interpolant(vals, "C", time))))]
        b2 == [b1 EXCEPT !.mat.F = Some(SetEntry(Get(@), 0, 1,
                                Neg(Interpolant(vals, "Rp", time))))]
        b3 == [b2 EXCEPT !.mat.F = Some(SetEntry(Get(@), 1, 1, rd_t))]
    IN  IF \A key \in {"Rp", "C", "Rd", "Pd"} : ~IsList(vals, key)
        THEN [err |-> "none", block |-> block]
        ELSE IF ~IsList(vals, "Rd") \/ ~IsList(vals, "C")
        THEN [err |-> "TypeError", block |-> block]
        ELSE IF ~IsList(vals, "Rp") THEN [err |-> "TypeError", block |-> b1]
        ELSE IF ~IsList(vals, "Pd") THEN [err |-> "TypeError", block |-> b3]
        ELSE [err |-> "none",
              block |-> [b3 EXCEPT !.vec.C = Some([Get(@) EXCEPT ![2] =
                                             Interpolant(vals, "Pd", time)])]]

\* FlowReferenceBC (key "Q") and PressureReferenceBC (key "P")
ReferenceBC_update_time(block, key, time) ==
    LET vals == block.params.bc_values
    IN  IF ~IsList(vals, key) THEN [err |-> "none", block |-> block]
        ELSE [err |-> "none",
              block |-> [block EXCEPT !.vec.C = Some([Get(@) EXCEPT ![1] =
                                                Neg(Interpolant(vals, key, time))])]]

OpenLoopCoronaryBC_update_time(block, time) ==
    LET vals == block.params.bc_values
        value(key) == IF IsList(vals, key) THEN Interpolant(vals, key, time)
                      ELSE Val(vals[key])
    IN  IF ~IsList(vals, "Pim") /\ ~IsList(vals, "P_v")
        THEN [err |-> "none", block |-> block]
        ELSE [err |-> "none",
              block |-> [block EXCEPT !.vec.C =
                            Some(CoronaryC(vals, value("Pim"), value("P_v")))]]

Block_update_time(block, time) ==
    CASE block.kind = "ResistanceBC" -> ResistanceBC_update_time(block, time)
      [] block.kind = "WindkesselBC" -> WindkesselBC_update_time(block, time)
      [] block.kind = "FlowReferenceBC" -> ReferenceBC_update_time(block, "Q", time)
      [] block.kind = "PressureReferenceBC" -> ReferenceBC_update_time(block, "P", time)
      [] block.kind = "OpenLoopCoronaryBC" -> OpenLoopCoronaryBC_update_time(block, time)
      [] OTHER -> [err |-> "none", block |-> block]

\* for b in block_list: b.update_time(time), up to the first call that raises:
\* [err, block_list, calls], calls the number of blocks called
RECURSIVE UpdateTimeLoop(_, _, _)
UpdateTimeLoop(blocks, i, time) ==
    IF i > Len(blocks) THEN [err |-> "none", block_list |-> blocks, calls |-> Len(blocks)]
    ELSE LET r == Block_update_time(blocks[i], time)
         IN  IF r.err # "none"
             THEN [err |-> r.err, block_list |-> [blocks EXCEPT ![i] = r.block],
                   calls |-> i]
             ELSE UpdateTimeLoop([blocks EXCEPT ![i] = r.block], i + 1, time)

BloodVessel_update_solution_signed(block, yaf) ==
    LET K == Val(block.params.stenosis_coefficient)
        Q_in == yaf[block.inflow_nodes[1].flow_dof + 1]
        fac1 == Mul(Neg(K), Q_in)
        fac2 == Sub(fac1, Val(Get(block.params.R)))
    IN  IF K = R(0) THEN [err |-> "none", block |-> block]
        ELSE IF Len(block.inflow_nodes) = 0 THEN [err |-> "IndexError", block |-> block]
        ELSE [err |-> "none",
              block |-> [block EXCEPT
                  !.mat.F = Some(SetEntry(SetEntry(Get(@), 0, 1, fac2), 2, 1, fac2)),
                  !.mat.dF = Some(SetEntry(SetEntry(Get(@), 0, 1, fac1), 2, 1, fac1))]]

\* BloodVessel.update_solution for a vessel with a stenosis coefficient; the
\* vessels without one have the empty update_solution of Block
BloodVessel_update_solution(block, yaf) ==
    LET K == Val(block.params.stenosis_coefficient)
        Q_in == AbsOf(yaf[block.inflow_nodes[1].flow_dof + 1])
        fac1 == Mul(Neg(K), Q_in)
        fac2 == Sub(fac1, Val(Get(block.params.R)))
    IN  IF K = R(0) THEN [err |-> "none", block |-> block]
        ELSE IF Len(block.inflow_nodes) = 0 THEN [err |-> "IndexError", block |-> block]
        ELSE [err |-> "none",
              block |-> [block EXCEPT
                  !.mat.F = Some(SetEntry(SetEntry(Get(@), 0, 1, fac2), 2, 1, fac2)),
                  !.mat.dF = Some(SetEntry(SetEntry(Get(@), 0, 1, fac1), 2, 1, fac1))]]

Block_update_solution(block, yaf) ==
    IF block.kind = "BloodVessel" THEN BloodVessel_update_solution(block, yaf)
    ELSE [err |-> "none", block |-> block]

\* for b in block_list: b.update_solution(yaf)
RECURSIVE UpdateSolutionLoop(_, _, _)
UpdateSolutionLoop(blocks, i, yaf) ==
    IF i > Len(blocks) THEN [err |-> "none", block_list |-> blocks, calls |-> Len(blocks)]
    ELSE LET r == Block_update_solution(blocks[i], yaf)
         IN  IF r.err # "none"
             THEN [err |-> r.err, block_list |-> [blocks EXCEPT ![i] = r.block],
                   calls |-> i]
             ELSE UpdateSolutionLoop([blocks EXCEPT ![i] = r.block], i + 1, yaf)

\* the blocks of the model named name
BlockOf(blocks, name) == blocks[CHOOSE i \in 1..Len(blocks) : blocks[i].name = name]

\* the entry (row, col) of the global F: the value of the local entry that
\* the assembly wrote there, zero where no block wrote
GlobalF(blocks, global, row, col) ==
    IF <<row, col>> \in DOMAIN global.F
    THEN LET ref == global.F[<<row, col>>]
         IN  Get(BlockOf(blocks, ref[1]).mat.F)[ref[2] + 1][ref[3] + 1]
    ELSE R(0)

\* the global C at row
GlobalC(blocks, global, row) ==
    IF <<row>> \in DOMAIN global.C
    THEN LET ref == global.C[<<row>>]
         IN  Get(BlockOf(blocks, ref[1]).vec.C)[ref[2] + 1]
    ELSE R(0)

(***************************************************************************)
(* The arithmetic of GeneralizedAlpha.step.  Where every number involved   *)
(* is given by the configuration (a first step from np.zeros with constant *)
(* element contributions) the model computes the residual and the Newton   *)
(* update in exact rational arithmetic, which the floating-point results   *)
(* approximate; elsewhere the values are terms that are not computed.      *)
(***************************************************************************)
\* run_integrator: rho=0.1
Rho == Rat(1, 10)

\* GeneralizedAlpha.__init__
alpha_m == RatDiv(RatMul(Rat(1, 2), RatSub(R(3), Rho)), RatAdd(R(1), Rho))
alpha_f == RatDiv(R(1), RatAdd(R(1), Rho))
gamma == RatSub(RatAdd(Rat(1, 2), alpha_m), alpha_f)
fac == RatDiv(alpha_m, RatMul(alpha_f, gamma))

\* the entry (row, col) of the global matrix key ("E", "F" or "dF"): the local
\* entry that the assembly wrote there, zero where no block wrote (dE and dC
\* stay zero: no block has them)
GlobalMat(blocks, global, key, row, col) ==
    IF <<row, col>> \in DOMAIN global.F
    THEN LET ref == global.F[<<row, col>>]
             m == BlockOf(blocks, ref[1]).mat[key]
         IN  IF IsNone(m) THEN R(0) ELSE Get(m)[ref[2] + 1][ref[3] + 1]
    ELSE R(0)

\* self.mat after assemble: the values of E, F, dF and C
System(blocks, global, n) ==
    [E |-> [i \in 1..n |-> [j \in 1..n |-> GlobalMat(blocks, global, "E", i - 1, j - 1)]],
     F |-> [i \in 1..n |-> [j \in 1..n |-> GlobalMat(blocks, global, "F", i - 1, j - 1)]],
     dF |-> [i \in 1..n |-> [j \in 1..n |-> GlobalMat(blocks, global, "dF", i - 1, j - 1)]],
     C |-> [i \in 1..n |-> GlobalC(blocks, global, i - 1)]]

ExactVector(v) == \A i \in 1..Len(v) : IsExact(v[i])
ExactMatrix(m) == \A i \in 1..Len(m) : ExactVector(m[i])
ExactSystem(sys) ==
    ExactMatrix(sys.E) /\ ExactMatrix(sys.F) /\ ExactMatrix(sys.dF) /\ ExactVector(sys.C)

\* row.dot(v)
RECURSIVE Dot(_, _, _)
Dot(row, v, j) ==
    IF j > Len(row) THEN R(0)
    ELSE IF row[j].num = 0 THEN Dot(row, v, j + 1)
    ELSE RatAdd(RatMul(row[j], v[j]), Dot(row, v, j + 1))

\* res = -E.dot(ydotam) - F.dot(yaf) - C
Residual(sys, yaf, ydotam) ==
    [i \in 1..Len(sys.C) |->
        RatSub(RatSub(RatNeg(Dot(sys.E[i], ydotam, 1)), Dot(sys.F[i], yaf, 1)), sys.C[i])]

\* np.abs(res).max()
RECURSIVE MaxAbs(_, _)
MaxAbs(res, j) ==
    IF j > Len(res) THEN R(0)
    ELSE LET rest == MaxAbs(res, j + 1)
         IN  IF RatLess(rest, RatAbs(res[j])) THEN RatAbs(res[j]) ELSE rest

Lhs_without_E(sys, time_step_size) ==
    [i \in 1..Len(sys.C) |-> [j \in 1..Len(sys.C) |->
        RatAdd(sys.F[i][j], sys.dF[i][j])]]

\* lhs = F + (dE + dF + dC + E * fac * time_step_size_inv)
Lhs(sys, time_step_size) ==
    [i \in 1..Len(sys.C) |-> [j \in 1..Len(sys.C) |->
        RatAdd(sys.F[i][j],
               RatAdd(sys.dF[i][j],
                      RatMul(sys.E[i][j], RatDiv(fac, time_step_size))))]]

\* Gaussian elimination of the augmented rows from column c on: [singular, rows]
RECURSIVE Eliminate(_, _)
Eliminate(rows, c) ==
    LET n == Len(rows) IN
    IF c > n THEN [singular |-> FALSE, rows |-> rows]
    ELSE IF \A i \in c..n : rows[i][c].num = 0 THEN [singular |-> TRUE, rows |-> rows]
    ELSE LET p == CHOOSE i \in c..n :
                      rows[i][c].num # 0 /\ \A z \in c..(i - 1) : rows[z][c].num = 0
             swapped == [rows EXCEPT ![c] = rows[p], ![p] = rows[c]]
             pivot == swapped[c]
             reduced == [i \in 1..n |->
                 IF i = c \/ swapped[i][c].num = 0 THEN swapped[i]
                 ELSE LET f == RatDiv(swapped[i][c], pivot[c])
                      IN  [j \in 1..(n + 1) |->
                              IF pivot[j].num = 0 THEN swapped[i][j]
                              ELSE RatSub(swapped[i][j], RatMul(f, pivot[j]))]]
         IN  Eliminate(reduced, c + 1)

\* np.linalg.solve(lhs, res) in exact arithmetic: [singular, x]
Solve(lhs, res) ==
    LET n == Len(res)
        r == Eliminate([i \in 1..n |-> [j \in 1..(n + 1) |->
                           IF j <= n THEN lhs[i][j] ELSE res[i]]], 1)
    IN  [singular |-> r.singular,
         x |-> IF r.singular THEN res
               ELSE [i \in 1..n |-> RatDiv(r.rows[i][n + 1], r.rows[i][i])]]

\* the digits-digit fraction of rem / den, rounded down
RECURSIVE Fraction(_, _, _)
Fraction(rem, den, digits) ==
    IF digits = 0 \/ rem = 0 THEN 0
    ELSE ((rem * 10) \div den) * 10^(digits - 1) + Fraction((rem * 10) % den, den, digits - 1)

\* what is left of rem / den after digits digits
RECURSIVE FractionRest(_, _, _)
FractionRest(rem, den, digits) ==
    IF digits = 0 \/ rem = 0 THEN rem
    ELSE FractionRest((rem * 10) % den, den, digits - 1)

\* the largest residual norm that the model tells apart, in units of 1e-8
MaxUnits == 20 * Scale

\* a residual norm in units of 1e-8, rounded up (so that it is at most an
\* integer number of units iff the norm is), and MaxUnits from MaxUnits on
Units(q) ==
    IF q.num >= 20 * q.den THEN MaxUnits
    ELSE (q.num \div q.den) * Scale + Fraction(q.num % q.den, q.den, 8)
             + (IF FractionRest(q.num % q.den, q.den, 8) = 0 THEN 0 ELSE 1)

(***************************************************************************)
(* utils.format_results_to_dict and the summary of run_from_config         *)
(***************************************************************************)
SelectVessels(block_list) == SelectSeq(block_list, LAMBDA b : b.kind = "BloodVessel")

\* results_0d[:, dof]
Column(results_0d, dof) == [i \in 1..Len(results_0d) |-> <<results_0d[i], dof>>]

FirstOutflowFlowDof(vessel) == vessel.outflow_nodes[1].flow_dof

FlowInDof(vessel) == vessel.inflow_nodes[1].flow_dof
FlowOutDof(vessel) == vessel.outflow_nodes[1].flow_dof
PresInDof(vessel) == vessel.inflow_nodes[1].pres_dof
PresOutDof(vessel) == vessel.outflow_nodes[1].pres_dof

\* [err, val]: val is, per vessel, its name and its four signals
format_results_to_dict(zero_d_time, results_0d, block_list) ==
    LET vessels == SelectVessels(block_list)
    IN  IF \E i \in 1..Len(vessels) :
              Len(vessels[i].inflow_nodes) = 0 \/ Len(vessels[i].outflow_nodes) = 0
        THEN [err |-> "IndexError", val |-> <<>>]
        ELSE [err |-> "none",
              val |-> [i \in 1..Len(vessels) |->
                          [name |-> vessels[i].name,
                           time |-> zero_d_time,
                           flow_in |-> Column(results_0d, FlowInDof(vessels[i])),
                           flow_out |-> Column(results_0d, FlowOutDof(vessels[i])),
                           pressure_in |-> Column(results_0d, PresInDof(vessels[i])),
                           pressure_out |-> Column(results_0d, PresOutDof(vessels[i]))]]]

\* the rows that one branch contributes to the summary
BranchRows(branch) ==
    [i \in 1..branch.time.len |->
        [name |-> branch.name, time |-> Rat((i - 1) * branch.time.dt.num, branch.time.dt.den),
         flow_in |-> branch.flow_in[i], flow_out |-> branch.flow_out[i],
         pressure_in |-> branch.pressure_in[i], pressure_out |-> branch.pressure_out[i]]]

\* pd.concat over the branches
RECURSIVE SummaryRows(_)
SummaryRows(branch_result) ==
    IF Len(branch_result) = 0 THEN <<>>
    ELSE BranchRows(branch_result[1]) \o SummaryRows(Tail(branch_result))

(***************************************************************************)
(* The explored inputs: configurations and direct calls of the integrator. *)
(***************************************************************************)
AddOpt(f, key, o) == IF IsNone(o) THEN f ELSE SetKey(f, key, Get(o))

SimParams(pts, cycles, steady_initial, output_all_cycles, max_iter, atol) ==
    AddOpt(AddOpt(AddOpt(AddOpt(
        [number_of_time_pts_per_cardiac_cycle |-> pts, number_of_cardiac_cycles |-> cycles],
        "steady_initial", steady_initial),
        "output_all_cycles", output_all_cycles),
        "maximum_nonlinear_iterations", max_iter),
        "absolute_tolerance", atol)

VesselConfig(vessel_id, inlet, outlet) ==
    [vessel_id |-> vessel_id, zero_d_element_type |-> "BloodVessel",
     zero_d_element_values |-> [R_poiseuille |-> Scalar(R(100))],
     boundary_conditions |->
        IF IsNone(inlet) /\ IsNone(outlet) THEN None
        ELSE Some([inlet |-> inlet, outlet |-> outlet])]

FlowSeries ==
    [bc_name |-> "INFLOW", bc_type |-> "FLOW",
     bc_values |-> [Q |-> Ints(<<1, 3, 1>>), t |-> Ints(<<0, 1, 2>>)]]
FlowScalar ==
    [bc_name |-> "INFLOW", bc_type |-> "FLOW", bc_values |-> [Q |-> Scalar(R(5))]]
PressureSeries ==
    [bc_name |-> "INFLOW", bc_type |-> "PRESSURE",
     bc_values |-> [P |-> Ints(<<2, 4, 2>>), t |-> Ints(<<0, 1, 2>>)]]
ResistanceOut ==
    [bc_name |-> "OUT", bc_type |-> "RESISTANCE",
     bc_values |-> [R |-> Scalar(R(100)), Pd |-> Scalar(R(0))]]
RcrOut ==
    [bc_name |-> "OUT2", bc_type |-> "RCR",
     bc_values |-> [Rp |-> Scalar(R(10)), C |-> Scalar(Rat(1, 1000)),
                    Rd |-> Scalar(R(90)), Pd |-> Scalar(R(0))]]
CoronaryOut ==
    [bc_name |-> "OUT", bc_type |-> "CORONARY",
     bc_values |-> [Ra1 |-> Scalar(R(10)), Ca |-> Scalar(R(1)), Ra2 |-> Scalar(R(10)),
                    Cc |-> Scalar(R(1)), Rv1 |-> Scalar(R(10)), P_v |-> Scalar(R(0)),
                    Pim |-> Ints(<<0, 6, 0>>), t |-> Ints(<<0, 1, 2>>)]]

JunctionConfig(name, inlets, outlets) ==
    [junction_name |-> name, junction_type |-> "NORMAL_JUNCTION",
     inlet_vessels |-> inlets, outlet_vessels |-> outlets]

\* one vessel between an inlet and an outlet boundary condition
OneVessel(inflow, outflow, sim) ==
    [simulation_parameters |-> sim,
     boundary_conditions |-> <<inflow, outflow>>,
     vessels |-> <<VesselConfig(0, Some(inflow.bc_name), Some(outflow.bc_name))>>,
     junctions |-> <<>>]

\* a vessel that splits into two
Bifurcation(sim) ==
    [simulation_parameters |-> sim,
     boundary_conditions |-> <<FlowSeries, ResistanceOut, RcrOut>>,
     vessels |-> <<VesselConfig(0, Some("INFLOW"), None), VesselConfig(1, None, Some("OUT")),
                   VesselConfig(2, None, Some("OUT2"))>>,
     junctions |-> <<JunctionConfig(<<"J", "0">>, <<0>>, <<1, 2>>)>>]

\* a vessel with an inlet boundary condition and nothing at its outlet
OpenVessel(sim) ==
    [simulation_parameters |-> sim,
     boundary_conditions |-> <<FlowSeries>>,
     vessels |-> <<VesselConfig(0, Some("INFLOW"), None)>>,
     junctions |-> <<>>]

OptBool == <<None, Some(TRUE), Some(FALSE)>>

\* maximum_nonlinear_iterations: absent, 0 .. MaxIterGiven
OptIter == <<None>> \o [i \in 1..(MaxIterGiven + 1) |-> Some(i - 1)]

\* absolute_tolerance: absent, 1e-8, 1.0
OptAtol == <<None, Some(1), Some(Scale)>>

\* Configurations of run_from_config.
\* (a) the time stepping and the two flags, (b) the Newton controls,
\* (c) the other models
TimingConfigs ==
    {OneVessel(FlowSeries, ResistanceOut,
               SimParams(pts, cycles, OptBool[si], OptBool[oc], Some(1), None)) :
        pts \in 2..MaxPts, cycles \in 1..MaxCycles, si \in 1..3, oc \in 1..3}

NewtonConfigs ==
    {OneVessel(FlowSeries, ResistanceOut,
               SimParams(MaxPts, 1, OptBool[si], None, OptIter[mi], OptAtol[at])) :
        si \in {1, 3}, mi \in 1..Len(OptIter), at \in 1..Len(OptAtol)}

ModelConfigs ==
    UNION {{OneVessel(FlowScalar, ResistanceOut, sim),
            OneVessel(PressureSeries, RcrOut, sim),
            OneVessel(FlowSeries, CoronaryOut, sim),
            Bifurcation(sim),
            OpenVessel(sim)} :
        sim \in {SimParams(MaxPts, MaxCycles, OptBool[si], None, Some(1), None) :
                    si \in {1, 3}}}

\* (d) configurations that exercise the model builder: one time step per
\* cycle, with and without the steady pre-pass
BuilderSims == {SimParams(2, 1, OptBool[si], None, Some(1), None) : si \in {1, 3}}

JunctionNames ==
    {<<"J", "0">>, <<"J", "1", "2">>, <<"J">>, <<"J", "X">>, <<"J", "0", "X">>,
     <<"X", "0">>, <<"X", "X">>, <<"X">>, <<>>}

JunctionNameConfigs ==
    {[Bifurcation(sim) EXCEPT !.junctions = <<JunctionConfig(nm, <<0>>, <<1, 2>>)>>] :
        nm \in JunctionNames, sim \in BuilderSims}

\* two blocks of one name: a junction and a vessel, a junction and a boundary
\* condition, two junctions, two vessels
DuplicateNameConfigs ==
    UNION {{[OneVessel(FlowSeries, ResistanceOut, sim) EXCEPT
                !.junctions = <<JunctionConfig(<<"V", "0">>, <<>>, <<>>)>>],
            [OneVessel(FlowSeries, ResistanceOut, sim) EXCEPT
                !.junctions = <<JunctionConfig(BcName(0, "inlet"), <<>>, <<>>)>>],
            [Bifurcation(sim) EXCEPT
                !.junctions = <<JunctionConfig(<<"J", "0">>, <<0>>, <<1, 2>>),
                                JunctionConfig(<<"J", "0">>, <<>>, <<>>)>>],
            [OneVessel(FlowSeries, ResistanceOut, sim) EXCEPT
                !.vessels = <<VesselConfig(0, Some("INFLOW"), Some("OUT")),
                              VesselConfig(0, Some("INFLOW"), Some("OUT"))>>]} :
        sim \in BuilderSims}

\* a junction, a vessel or a boundary condition of an unknown type
UnknownTypeConfigs ==
    UNION {{[Bifurcation(sim) EXCEPT !.junctions[1].junction_type = "BAD_JUNCTION"],
            [OneVessel(FlowSeries, ResistanceOut, sim) EXCEPT
                !.vessels[1].zero_d_element_type = "BAD_VESSEL"],
            [OneVessel(FlowSeries, ResistanceOut, sim) EXCEPT
                !.boundary_conditions[2].bc_type = "BAD_BC"]} :
        sim \in BuilderSims}

\* boundary conditions with time sequences of span 2 (from 0 and from 1) and of
\* span 1, under no cardiac_cycle_period, under 2 and under 1
FlowShifted ==
    [bc_name |-> "INFLOW", bc_type |-> "FLOW",
     bc_values |-> [Q |-> Ints(<<1, 3, 1>>), t |-> Ints(<<1, 2, 3>>)]]
ResistanceSeries(span) ==
    [bc_name |-> "OUT", bc_type |-> "RESISTANCE",
     bc_values |-> [R |-> Ints(<<100, 100>>), Pd |-> Ints(<<0, 0>>),
                    t |-> Ints(<<0, span>>)]]
OptPeriod == <<None, Some(R(2)), Some(R(1))>>

PeriodConfigs ==
    {OneVessel(inflow, outflow, AddOpt(sim, "cardiac_cycle_period", OptPeriod[cp])) :
        inflow \in {FlowSeries, FlowShifted, FlowScalar},
        outflow \in {ResistanceOut, ResistanceSeries(2), ResistanceSeries(1)},
        cp \in 1..3, sim \in BuilderSims}

\* a vessel end that names a boundary condition the list does not have
MissingBcConfigs ==
    UNION {{[OneVessel(FlowSeries, ResistanceOut, sim) EXCEPT
                !.vessels = <<VesselConfig(0, Some("INFLOW"), Some("MISSING"))>>],
            [OneVessel(FlowSeries, ResistanceOut, sim) EXCEPT
                !.vessels = <<VesselConfig(0, Some("MISSING"), Some("OUT"))>>],
            [OneVessel(FlowSeries, ResistanceOut, sim) EXCEPT
                !.boundary_conditions = <<>>],
            [Bifurcation(sim) EXCEPT
                !.vessels[2] = VesselConfig(1, None, Some("MISSING"))]} :
        sim \in BuilderSims}

\* a vessel that is the inlet of two junctions, and a vessel without an inlet
TwoOutlets(sim) ==
    [Bifurcation(sim) EXCEPT
        !.junctions = <<JunctionConfig(<<"J", "0">>, <<0>>, <<1>>),
                        JunctionConfig(<<"J", "1">>, <<0>>, <<2>>)>>]
NoInlet(sim) ==
    [simulation_parameters |-> sim,
     boundary_conditions |-> <<ResistanceOut>>,
     vessels |-> <<VesselConfig(0, None, Some("OUT"))>>,
     junctions |-> <<>>]

MultiplicityConfigs == UNION {{TwoOutlets(sim), NoInlet(sim)} : sim \in BuilderSims}

\* (e) configurations whose element contributions change with the solution or
\* with the time: a vessel with a stenosis, and outlets with some or all of
\* their parameters given as sequences
StenosisVessel(config) ==
    [config EXCEPT !.vessels[1].zero_d_element_values =
        [R_poiseuille |-> Scalar(R(100)), stenosis_coefficient |-> Scalar(Rat(1, 5))]]

NewtonSims == {SimParams(2, 1, OptBool[si], None, Some(3), None) : si \in {1, 3}}

StenosisConfigs ==
    {StenosisVessel(OneVessel(inflow, ResistanceOut, sim)) :
        inflow \in {FlowScalar, FlowSeries}, sim \in NewtonSims}

RcrValues(Rp, C, Rd, Pd) ==
    [bc_name |-> "OUT", bc_type |-> "RCR",
     bc_values |-> [Rp |-> Rp, C |-> C, Rd |-> Rd, Pd |-> Pd, t |-> Ints(<<0, 1, 2>>)]]

RcrSeries ==
    RcrValues(Ints(<<10, 20, 10>>), Ints(<<1, 2, 1>>), Ints(<<90, 80, 90>>),
              Ints(<<0, 4, 0>>))
RcrMixed ==
    {RcrValues(Scalar(R(10)), Scalar(R(1)), Ints(<<90, 80, 90>>), Scalar(R(0))),
     RcrValues(Ints(<<10, 20, 10>>), Scalar(R(1)), Ints(<<90, 80, 90>>), Ints(<<0, 4, 0>>)),
     RcrValues(Ints(<<10, 20, 10>>), Ints(<<1, 2, 1>>), Ints(<<90, 80, 90>>), Scalar(R(0))),
     RcrValues(Scalar(R(10)), Ints(<<1, 2, 1>>), Ints(<<90, 80, 90>>), Ints(<<0, 4, 0>>))}

ResistanceValues(Rv, Pd) ==
    [bc_name |-> "OUT", bc_type |-> "RESISTANCE",
     bc_values |-> [R |-> Rv, Pd |-> Pd, t |-> Ints(<<0, 1, 2>>)]]

ResistanceOutlets ==
    {ResistanceValues(Scalar(R(100)), Scalar(R(7))),
     ResistanceValues(Ints(<<100, 50, 100>>), Ints(<<7, 9, 7>>)),
     ResistanceValues(Ints(<<100, 50, 100>>), Scalar(R(7))),
     ResistanceValues(Scalar(R(100)), Ints(<<7, 9, 7>>))}

TimeConfigs ==
    {OneVessel(FlowScalar, outflow, sim) :
        outflow \in {RcrOut, RcrSeries} \cup RcrMixed \cup ResistanceOutlets,
        sim \in NewtonSims}

BuilderConfigs ==
    JunctionNameConfigs \cup DuplicateNameConfigs \cup UnknownTypeConfigs
        \cup PeriodConfigs \cup MissingBcConfigs \cup MultiplicityConfigs

Configs ==
    TimingConfigs \cup NewtonConfigs \cup ModelConfigs \cup BuilderConfigs
        \cup StenosisConfigs \cup TimeConfigs

\* Direct calls run_integrator(block_list, dofhandler, num_time_steps,
\* time_step_size[, y_initial][, atol][, max_iter]) on the blocks of ApiConfig
ApiConfig == OneVessel(FlowSeries, ResistanceOut, SimParams(2, 1, None, None, None, None))
ApiSize == DofN(create_blocks(ApiConfig, FALSE).dofhandler)
ApiStepSizes == {Rat(1, 2), Rat(1, 5)}
OptInitial == <<None, Some(GivenVector(ApiSize, "y", FALSE)),
                Some(GivenVector(ApiSize, "y", TRUE))>>

NoCall ==
    [num_time_steps |-> 0, time_step_size |-> R(0), y_initial |-> None,
     ydot_initial |-> None, atol |-> None, max_iter |-> None]

ApiCalls ==
    {[num_time_steps |-> n, time_step_size |-> dt, y_initial |-> OptInitial[yi],
      ydot_initial |-> None, atol |-> OptAtol[at], max_iter |-> OptIter[mi]] :
        n \in 1..MaxApiSteps, dt \in ApiStepSizes, yi \in 1..3,
        at \in 1..Len(OptAtol), mi \in 1..Len(OptIter)}

\* Direct constructions GeneralizedAlpha(rho, n, time_step_size[, atol][, max_iter])
\* followed by one call of step on the zero state
CtorCalls ==
    {[num_time_steps |-> 0, time_step_size |-> dt, y_initial |-> OptInitial[yi],
      ydot_initial |-> None, atol |-> OptAtol[at], max_iter |-> OptIter[mi]] :
        dt \in ApiStepSizes, yi \in 1..3, at \in 1..Len(OptAtol), mi \in 1..Len(OptIter)}

(***************************************************************************)
(* State.                                                                  *)
(*  entry       what the caller uses: "run_from_config", "run_integrator", *)
(*              "GeneralizedAlpha", a "DOFHandler" of its own or           *)
(*              "create_blocks"                                            *)
(*  config      the configuration as the caller passed it (history)        *)
(*  built       what the calls of create_blocks of a caller that builds    *)
(*              the model of one configuration twice returned (history)    *)
(*  dof_calls   the calls made on the caller's DOFHandler, each with the   *)
(*              value it returned (history)                                *)
(*  mat         the global system of the integrator (self.mat)             *)
(*  pc, err     the position in the program, the exception raised          *)
(*  err_msg     the message of that exception                              *)
(*  raised_in   the function that raised it (the innermost frame of the    *)
(*              traceback)                                                 *)
(*  phase       "steady" during the pre-pass, else "pulsatile"             *)
(*  parameters, steady_parameters, y_initial, ydot_initial, ret, result    *)
(*              locals of run_from_config (ret: what run_integrator        *)
(*              returned last)                                             *)
(*  call        the arguments of the call of run_integrator / the ctor     *)
(*  block_list, dofhandler    what create_blocks returned                  *)
(*  integrator, time_steps, k, y, ydot, y_over_time, ydot_over_time        *)
(*              locals of run_integrator; k indexes time_steps from 0      *)
(*  newton      locals of GeneralizedAlpha.step: the loop variable iter,   *)
(*              the residual res, whether the loop was left by break,      *)
(*              whether yaf/ydotam hold a NaN, the numbers of residual     *)
(*              evaluations and of linear solves, and whether the report   *)
(*              was printed                                                *)
(***************************************************************************)
VARIABLES entry, config, built, dof_calls, mat, pc, err, err_msg, raised_in, phase, parameters, steady_parameters, y_initial,
          ydot_initial, ret, result, call, block_list, dofhandler, integrator,
          time_steps, k, y, ydot, y_over_time, ydot_over_time, newton

vars == <<entry, config, built, dof_calls, mat, pc, err, err_msg, raised_in, phase, parameters, steady_parameters, y_initial,
          ydot_initial, ret, result, call, block_list, dofhandler, integrator,
          time_steps, k, y, ydot, y_over_time, ydot_over_time, newton>>

runnerVars == <<steady_parameters, y_initial, ydot_initial, ret, result>>
modelVars == <<block_list, dofhandler>>
integratorVars == <<integrator, time_steps, k, y, ydot, y_over_time, ydot_over_time>>

\* The Newton loop of the current step: the loop variable, the last residual
\* norm, whether the loop was left by break, the counts of residual
\* evaluations and linear solves, whether the report was printed, the iterates
\* yaf and ydotam, and the calls made: those of update_time, followed by those
\* of the latest pass of the loop body.
NoNewton ==
    [iter |-> None, res |-> None, broke |-> FALSE, nan |-> FALSE,
     evals |-> 0, solves |-> 0, reported |-> FALSE,
     yaf |-> <<>>, ydotam |-> <<>>, log |-> <<>>]

NoTimeSteps == [len |-> 0, dt |-> R(0)]

Init ==
    /\ \/ entry = "run_from_config" /\ parameters \in Configs /\ call = NoCall
       \/ entry = "run_integrator" /\ parameters = ApiConfig /\ call \in ApiCalls
       \/ entry = "GeneralizedAlpha" /\ parameters = ApiConfig /\ call \in CtorCalls
       \/ entry = "DOFHandler" /\ parameters = ApiConfig /\ call = NoCall
       \/ entry = "create_blocks" /\ parameters \in Configs /\ call = NoCall
    /\ pc = CASE entry = "run_from_config" -> "run_from_config"
              [] entry = "DOFHandler" -> "dofhandler"
              [] entry = "create_blocks" -> "build"
              [] OTHER -> "create"
    /\ config = parameters
    /\ built = <<>>
    /\ dof_calls = <<>>
    /\ mat = NoMat
    /\ err = "none"
    /\ err_msg = NoMsg
    /\ raised_in = "none"
    /\ phase = "pulsatile"
    /\ steady_parameters = None
    /\ y_initial = None
    /\ ydot_initial = None
    /\ ret = None
    /\ result = None
    /\ block_list = <<>>
    /\ dofhandler = DOFHandler
    /\ integrator = None
    /\ time_steps = NoTimeSteps
    /\ k = 0
    /\ y = Zeros(0, "y")
    /\ ydot = Zeros(0, "ydot")
    /\ y_over_time = <<>>
    /\ ydot_over_time = <<>>
    /\ newton = NoNewton

\* the exception e, raised in function f, leaves the program
RaisedMsg(e, m, f) == pc' = "raised" /\ err' = e /\ err_msg' = m /\ raised_in' = f
Raised(e, f) == RaisedMsg(e, BuiltinMsg, f)

NotRaised == err' = err /\ err_msg' = err_msg /\ raised_in' = raised_in

\* run_from_config up to the first create_blocks: the steady_initial flag and
\* convert_unsteady_bcs_to_steady
RunFromConfigBegin ==
    /\ pc = "run_from_config"
    /\ \E c \in {convert_unsteady_bcs_to_steady(parameters)} :
           IF OrElse(GetOpt(parameters.simulation_parameters, "steady_initial"), TRUE)
           THEN /\ parameters' = c.caller
                /\ IF c.err # "none"
                   THEN /\ Raised(c.err, "convert_unsteady_bcs_to_steady")
                        /\ UNCHANGED <<phase, steady_parameters>>
                   ELSE /\ steady_parameters' = Some(c.val)
                        /\ phase' = "steady"
                        /\ pc' = "create"
                        /\ NotRaised
           ELSE /\ pc' = "create"
                /\ UNCHANGED <<err, err_msg, raised_in, phase, steady_parameters,
                               parameters>>
    /\ UNCHANGED <<entry, config, built, dof_calls, mat, y_initial, ydot_initial, ret, result, call,
                   newton>>
    /\ UNCHANGED modelVars
    /\ UNCHANGED integratorVars

\* the arguments that run_from_config passes to run_integrator: g is what
\* get_solver_params returned
RunnerCall(g, sim_params) ==
    [num_time_steps |-> g.num_time_steps,
     time_step_size |-> g.time_step_size,
     y_initial |-> y_initial,
     ydot_initial |-> ydot_initial,
     atol |-> Some(OrElse(GetOpt(sim_params, "absolute_tolerance"), RunnerDefaultAtol)),
     max_iter |-> Some(OrElse(GetOpt(sim_params, "maximum_nonlinear_iterations"),
                              RunnerDefaultMaxIter))]

\* create_blocks, and for run_from_config get_solver_params and the call of
\* run_integrator
CreateBlocks ==
    /\ pc = "create"
    /\ \E p \in {IF phase = "steady" THEN Get(steady_parameters) ELSE parameters} :
       \E r \in {create_blocks(p, phase = "steady")} :
       \E p2 \in {[p EXCEPT !.simulation_parameters = r.sim]} :
       \E g \in {IF entry = "run_from_config" /\ r.err = "none"
                 THEN get_solver_params(p2)
                 ELSE [err |-> "none", time_step_size |-> R(0), num_time_steps |-> 0]} :
          /\ IF phase = "steady"
             THEN steady_parameters' = Some(p2) /\ parameters' = parameters
             ELSE parameters' = p2 /\ steady_parameters' = steady_parameters
          /\ IF r.err # "none"
             THEN RaisedMsg(r.err, r.msg, "create_blocks") /\ UNCHANGED <<call, block_list, dofhandler>>
             ELSE IF g.err # "none"
             THEN /\ Raised(g.err, "get_solver_params")
                  /\ block_list' = r.block_list
                  /\ dofhandler' = r.dofhandler
                  /\ call' = call
             ELSE /\ block_list' = r.block_list
                  /\ dofhandler' = r.dofhandler
                  /\ NotRaised
                  /\ pc' = IF entry = "GeneralizedAlpha" THEN "construct"
                           ELSE "run_integrator"
                  /\ call' = IF entry = "run_from_config"
                             THEN RunnerCall(g, IF phase = "steady"
                                                THEN parameters.simulation_parameters
                                                ELSE r.sim)
                             ELSE call
    /\ UNCHANGED <<entry, config, built, dof_calls, mat, phase, y_initial, ydot_initial, ret, result, newton>>
    /\ UNCHANGED integratorVars

\* run_integrator up to its loop
RunIntegratorBegin ==
    /\ pc = "run_integrator"
    /\ LET y0 == IF IsNone(call.y_initial) THEN Zeros(DofN(dofhandler), "y")
                 ELSE Get(call.y_initial)
           ydot0 == IF IsNone(call.ydot_initial) THEN Zeros(DofN(dofhandler), "ydot")
                    ELSE Get(call.ydot_initial)
       IN  /\ y' = y0
           /\ ydot' = ydot0
           /\ y_over_time' = <<y0>>
           /\ ydot_over_time' = <<ydot0>>
           /\ time_steps' = [len |-> ArangeLen(call.num_time_steps, call.time_step_size),
                             dt |-> call.time_step_size]
           /\ integrator' = Some(GeneralizedAlpha(y0.n, call.time_step_size,
                                    Some(OrElse(call.atol, RunIntegratorDefaultAtol)),
                                    Some(OrElse(call.max_iter, RunIntegratorDefaultMaxIter))))
    /\ k' = 0
    /\ mat' = NoMat
    /\ pc' = "loop"
    /\ UNCHANGED <<entry, config, built, dof_calls, err, err_msg, raised_in, phase, parameters, call, newton>>
    /\ UNCHANGED runnerVars
    /\ UNCHANGED modelVars

\* a caller constructs the integrator itself and is about to call step once
GeneralizedAlphaConstruct ==
    /\ pc = "construct"
    /\ integrator' = Some(GeneralizedAlpha(DofN(dofhandler), call.time_step_size,
                                           call.atol, call.max_iter))
    /\ y' = IF IsNone(call.y_initial) THEN Zeros(DofN(dofhandler), "y")
            ELSE Get(call.y_initial)
    /\ ydot' = Zeros(DofN(dofhandler), "ydot")
    /\ time_steps' = [len |-> 1, dt |-> call.time_step_size]
    /\ k' = 0
    /\ mat' = NoMat
    /\ pc' = "step"
    /\ UNCHANGED <<entry, config, built, dof_calls, err, err_msg, raised_in, phase, parameters, call, newton, y_over_time,
                   ydot_over_time>>
    /\ UNCHANGED runnerVars
    /\ UNCHANGED modelVars

\* the residual norms that an iteration may find, in units of 1e-8: 1e-8, 1.0, 3.0
ResidualValues == {1, Scale, 3 * Scale}

\* the next value of the loop variable of "for iter in range(self.max_iter)"
NextIter == IF IsNone(newton.iter) THEN 0 ELSE Get(newton.iter) + 1

\* the time of the k-th element of time_steps
TimeAt(i) == Rat(i * time_steps.dt.num, time_steps.dt.den)

\* a call made within step: of op on the block named block (<<>> for the
\* calls of the integrator itself), at the time given to update_time or in the
\* pass iter of the loop body
Call(op, block, at) == [op |-> op, block |-> block, at |-> at]

\* for b in block_list: b.update_time(time), the first calls of them
UpdateTimeCalls(blocks, time, calls) ==
    [i \in 1..calls |-> Call("update_time", blocks[i].name, time)]

\* the calls of one pass of the loop body in the order of the code, for a
\* pass that got as far as stage: "update_solution" (its first calls calls),
\* "assemble", "test" (the residual and the termination test), "solve",
\* "update"
IterationCalls_assemble_first(blocks, iter, calls, stage) ==
    LET at == R(iter)
        us == [i \in 1..calls |-> Call("update_solution", blocks[i].name, at)]
    IN  CASE stage = "update_solution" -> us
          [] stage = "assemble" -> <<Call("assemble", <<>>, at)>> \o us
          [] stage = "test" ->
                <<Call("assemble", <<>>, at)>> \o us
                    \o <<Call("residual", <<>>, at), Call("test", <<>>, at)>>
          [] stage = "solve" ->
                <<Call("assemble", <<>>, at)>> \o us
                    \o <<Call("residual", <<>>, at), Call("test", <<>>, at),
                         Call("solve", <<>>, at)>>
          [] OTHER ->
                <<Call("assemble", <<>>, at)>> \o us
                    \o <<Call("residual", <<>>, at), Call("test", <<>>, at),
                         Call("solve", <<>>, at), Call("update", <<>>, at)>>

IterationCalls(blocks, iter, calls, stage) ==
    LET at == R(iter)
        us == [i \in 1..calls |-> Call("update_solution", blocks[i].name, at)]
    IN  CASE stage = "update_solution" -> us
          [] stage = "assemble" -> us \o <<Call("assemble", <<>>, at)>>
          [] stage = "test" ->
                us \o <<Call("assemble", <<>>, at), Call("residual", <<>>, at),
                        Call("test", <<>>, at)>>
          [] stage = "solve" ->
                us \o <<Call("assemble", <<>>, at), Call("residual", <<>>, at),
                        Call("test", <<>>, at), Call("solve", <<>>, at)>>
          [] OTHER ->
                us \o <<Call("assemble", <<>>, at), Call("residual", <<>>, at),
                        Call("test", <<>>, at), Call("solve", <<>>, at),
                        Call("update", <<>>, at)>>

\* the calls of update_time in a log
TimeCalls(log) == SelectSeq(log, LAMBDA c : c.op = "update_time")

\* the entries of an iterate that is not computed: d is "yaf" or "ydotam", of
\* the step from the point step of time_steps, before the pass iter
Unknown(d, step, iter, n) ==
    [i \in 1..n |-> Entry([d |-> d, step |-> step, iter |-> iter], i - 1)]

\* np.zeros(n) as numbers
ZeroVector(n) == [i \in 1..n |-> R(0)]

IsZeros(v) == v.init = "zeros" /\ v.s = 0

\* time + self.alpha_f * self.time_step_size
SubstepTime(time, time_step_size) == RatAdd(time, RatMul(alpha_f, time_step_size))

\* GeneralizedAlpha.step up to its Newton loop: the copies, the predictor, the
\* substep quantities (zero when y and ydot are np.zeros) and update_time of
\* every block
StepBegin ==
    /\ \/ pc = "loop" /\ k < time_steps.len - 1
       \/ pc = "step"
    /\ \E ut \in {UpdateTimeLoop(block_list, 1,
                                  SubstepTime(TimeAt(k), time_steps.dt))} :
          /\ block_list' = ut.block_list
          /\ IF ut.err # "none"
             THEN /\ Raised(ut.err, "update_time")
                  /\ newton' = [newton EXCEPT !.log =
                                   UpdateTimeCalls(block_list,
                                      SubstepTime(TimeAt(k), time_steps.dt), ut.calls)]
             ELSE /\ newton' =
                       [NoNewton EXCEPT
                          !.nan = y.nan \/ ydot.nan,
                          !.yaf = IF IsZeros(y) /\ IsZeros(ydot) THEN ZeroVector(y.n)
                                  ELSE Unknown("yaf", k, 0, y.n),
                          !.ydotam = IF IsZeros(ydot) THEN ZeroVector(y.n)
                                     ELSE Unknown("ydotam", k, 0, y.n),
                          !.log = UpdateTimeCalls(block_list,
                                     SubstepTime(TimeAt(k), time_steps.dt), ut.calls)]
                  /\ pc' = "newton"
                  /\ NotRaised
    /\ UNCHANGED <<entry, config, built, dof_calls, mat, phase, parameters, call, dofhandler>>
    /\ UNCHANGED runnerVars
    /\ UNCHANGED integratorVars

\* what a pass of the loop body finds after update_solution and assemble, for
\* the blocks and the global references after them: [exact, res, sol], res
\* the residual norm and sol the solution of the linear system when every
\* number is given
Linearised(blocks, global, n, time_step_size, yaf, ydotam) ==
    LET sys == System(blocks, global, n)
    IN  IF ExactVector(yaf) /\ ExactVector(ydotam) /\ ExactSystem(sys)
        THEN [exact |-> TRUE,
              res |-> MaxAbs(Residual(sys, yaf, ydotam), 1),
              sol |-> Solve(Lhs(sys, time_step_size), Residual(sys, yaf, ydotam))]
        ELSE [exact |-> FALSE, res |-> R(0), sol |-> [singular |-> FALSE, x |-> <<>>]]

\* yaf += dy and ydotam += dy * fac_ydotam
NextIterate(lin, old, factor, d, step, iter) ==
    IF lin.exact /\ ~lin.sol.singular
    THEN [i \in 1..Len(old) |-> RatAdd(old[i], RatMul(lin.sol.x[i], factor))]
    ELSE Unknown(d, step, iter, Len(old))

\* One pass of the body of the Newton loop: update_solution, assemble, the
\* residual, the termination test, the linear solve and the update.  The
\* residual of finite vectors is computed where every number is given and any
\* of ResidualValues elsewhere; it is NaN when yaf or ydotam hold a NaN.
\* np.linalg.solve raises LinAlgError on a singular matrix; of a matrix that is
\* singular in exact arithmetic the rounded factorisation may or may not be.
NewtonIteration ==
    /\ pc = "newton"
    /\ ~newton.broke
    /\ NextIter < Get(integrator).max_iter
    /\ \E us \in {UpdateSolutionLoop(block_list, 1, newton.yaf)} :
       \E global \in {IF us.err # "none" THEN mat
                       ELSE GeneralizedAlpha_assemble(block_list, mat, Get(integrator).n)} :
       \E lin \in {IF us.err # "none"
                       \/ AssembleError(block_list, Get(integrator).n) # "none"
                       \/ newton.nan
                    THEN [exact |-> FALSE, res |-> R(0),
                          sol |-> [singular |-> FALSE, x |-> <<>>]]
                    ELSE Linearised(us.block_list, global, Get(integrator).n,
                                    Get(integrator).time_step_size,
                                    newton.yaf, newton.ydotam)} :
       \E r \in IF lin.exact THEN {Units(lin.res)} ELSE ResidualValues,
          singular \in IF lin.exact /\ ~lin.sol.singular THEN {FALSE} ELSE BOOLEAN :
          LET res == [nan |-> newton.nan, abs |-> IF newton.nan THEN 0 ELSE r]
              e == AssembleError(block_list, Get(integrator).n)
              n1 == [newton EXCEPT !.iter = Some(NextIter)]
              n2 == [n1 EXCEPT !.res = Some(res), !.evals = @ + 1]
              log(calls, stage) ==
                  TimeCalls(newton.log)
                      \o IterationCalls(block_list, NextIter, calls, stage)
              all == Len(block_list)
          IN  /\ block_list' = us.block_list
              /\ mat' = global
              /\ IF us.err # "none"
                 THEN /\ Raised(us.err, "update_solution")
                      /\ newton' = [n1 EXCEPT !.log = log(us.calls, "update_solution")]
                 ELSE IF e # "none"
                 THEN /\ Raised(e, "assemble")
                      /\ newton' = [n1 EXCEPT !.log = log(all, "assemble")]
                 ELSE IF ~res.nan /\ res.abs <= Get(integrator).atol
                 THEN /\ newton' = [n2 EXCEPT !.broke = TRUE, !.log = log(all, "test")]
                      /\ UNCHANGED <<pc, err, err_msg, raised_in>>
                 ELSE IF singular
                 THEN /\ Raised("LinAlgError", "solve")
                      /\ newton' = [n2 EXCEPT !.log = log(all, "solve")]
                 ELSE /\ newton' =
                           [n2 EXCEPT
                              !.solves = @ + 1,
                              !.yaf = NextIterate(lin, @, R(1), "yaf", k, NextIter + 1),
                              !.ydotam = NextIterate(lin, @,
                                            RatDiv(fac, Get(integrator).time_step_size),
                                            "ydotam", k, NextIter + 1),
                              !.log = log(all, "update")]
                      /\ UNCHANGED <<pc, err, err_msg, raised_in>>
    /\ UNCHANGED <<entry, config, built, dof_calls, phase, parameters, call, dofhandler>>
    /\ UNCHANGED runnerVars
    /\ UNCHANGED integratorVars

\* whether step prints "Max NR iterations reached"
Reports(iter, max_iter) == iter = max_iter - 1

\* GeneralizedAlpha.step after its Newton loop: the report and the corrector;
\* then run_integrator appends what step returned
StepEnd ==
    /\ pc = "newton"
    /\ newton.broke \/ NextIter >= Get(integrator).max_iter
    /\ IF IsNone(newton.iter)
       THEN /\ Raised("UnboundLocalError", "step")
            /\ UNCHANGED <<newton, ret, k, y, ydot, y_over_time, ydot_over_time>>
       ELSE LET curr_y == StepResult(y, TimeAt(k), newton.nan)
                curr_ydot == StepResult(ydot, TimeAt(k), newton.nan)
            IN  /\ newton' = [newton EXCEPT !.reported =
                                 Reports(Get(newton.iter), Get(integrator).max_iter)]
                /\ y' = curr_y
                /\ ydot' = curr_ydot
                /\ NotRaised
                /\ IF entry = "GeneralizedAlpha"
                   THEN /\ ret' = Some([time_steps |-> time_steps,
                                        y_list |-> <<curr_y>>, ydot_list |-> <<curr_ydot>>])
                        /\ pc' = "done"
                        /\ UNCHANGED <<k, y_over_time, ydot_over_time>>
                   ELSE /\ y_over_time' = Append(y_over_time, curr_y)
                        /\ ydot_over_time' = Append(ydot_over_time, curr_ydot)
                        /\ k' = k + 1
                        /\ pc' = "loop"
                        /\ ret' = ret
    /\ UNCHANGED <<entry, config, built, dof_calls, mat, phase, parameters, call, steady_parameters, y_initial,
                   ydot_initial, result, integrator, time_steps>>
    /\ UNCHANGED modelVars

\* run_integrator returns
RunIntegratorReturn ==
    /\ pc = "loop"
    /\ k >= time_steps.len - 1
    /\ ret' = Some([time_steps |-> time_steps, y_list |-> y_over_time,
                    ydot_list |-> ydot_over_time])
    /\ pc' = IF entry = "run_from_config" THEN "returned" ELSE "done"
    /\ UNCHANGED <<entry, config, built, dof_calls, mat, err, err_msg, raised_in, phase, parameters, call, steady_parameters, y_initial,
                   ydot_initial, result, newton>>
    /\ UNCHANGED modelVars
    /\ UNCHANGED integratorVars

\* y_list[0]
FirstSample(list) == list[1]

\* y_list[-1]
LastSample(list) == list[Len(list)]

\* run_from_config after the steady pre-pass: the terminal state becomes the
\* initial state of the pulsatile run
SteadyInitial ==
    /\ pc = "returned"
    /\ phase = "steady"
    /\ y_initial' = Some(LastSample(Get(ret).y_list))
    /\ ydot_initial' = Some(LastSample(Get(ret).ydot_list))
    /\ phase' = "pulsatile"
    /\ pc' = "create"
    /\ UNCHANGED <<entry, config, built, dof_calls, mat, err, err_msg, raised_in, parameters, call, steady_parameters, ret, result, newton>>
    /\ UNCHANGED modelVars
    /\ UNCHANGED integratorVars

\* run_from_config after the pulsatile run: format_results_to_dict and the
\* summary
FormatResults ==
    /\ pc = "returned"
    /\ phase = "pulsatile"
    /\ \E branch_result \in
             {format_results_to_dict(Get(ret).time_steps, Get(ret).y_list, block_list)} :
           IF branch_result.err # "none"
           THEN Raised(branch_result.err, "format_results_to_dict") /\ result' = result
           ELSE /\ result' = Some(SummaryRows(branch_result.val))
                /\ pc' = "done"
                /\ NotRaised
    /\ UNCHANGED <<entry, config, built, dof_calls, mat, phase, parameters, call, steady_parameters, y_initial,
                   ydot_initial, ret, newton>>
    /\ UNCHANGED modelVars
    /\ UNCHANGED integratorVars

\* the names a caller registers variables under
DofNames == {<<>>, <<"Q">>, <<"P">>}

\* a caller's dofhandler.register_variable(name)
RegisterVariable ==
    /\ pc = "dofhandler"
    /\ Len(dof_calls) < MaxDofCalls
    /\ \E name \in DofNames :
          /\ dofhandler' = register_variable(dofhandler, name).dofhandler
          /\ dof_calls' = Append(dof_calls,
                                 [op |-> "register_variable", name |-> name,
                                  returned |-> register_variable(dofhandler, name).id])
    /\ UNCHANGED <<entry, config, built, mat, pc, err, err_msg, raised_in, phase, parameters, call,
                   block_list, newton>>
    /\ UNCHANGED runnerVars
    /\ UNCHANGED integratorVars

\* a caller's dofhandler.register_equation()
RegisterEquation ==
    /\ pc = "dofhandler"
    /\ Len(dof_calls) < MaxDofCalls
    /\ dofhandler' = register_equation(dofhandler).dofhandler
    /\ dof_calls' = Append(dof_calls,
                           [op |-> "register_equation", name |-> <<>>,
                            returned |-> register_equation(dofhandler).id])
    /\ UNCHANGED <<entry, config, built, mat, pc, err, err_msg, raised_in, phase, parameters, call,
                   block_list, newton>>
    /\ UNCHANGED runnerVars
    /\ UNCHANGED integratorVars


\* a caller's block_list, dofhandler = create_blocks(parameters), on the
\* configuration object it passed before
CreateBlocksAgain ==
    /\ pc = "build"
    /\ Len(built) < MaxBuilds
    /\ \E r \in {create_blocks(parameters, FALSE)} :
          /\ parameters' = [parameters EXCEPT !.simulation_parameters = r.sim]
          /\ IF r.err # "none"
             THEN /\ RaisedMsg(r.err, r.msg, "create_blocks")
                  /\ UNCHANGED <<built, block_list, dofhandler>>
             ELSE /\ built' = Append(built, [block_list |-> r.block_list,
                                             dofhandler |-> r.dofhandler])
                  /\ block_list' = r.block_list
                  /\ dofhandler' = r.dofhandler
                  /\ UNCHANGED <<pc, err, err_msg, raised_in>>
    /\ UNCHANGED <<entry, config, dof_calls, mat, phase, call, newton>>
    /\ UNCHANGED runnerVars
    /\ UNCHANGED integratorVars

Next ==
    \/ RegisterVariable
    \/ CreateBlocksAgain
    \/ RegisterEquation
    \/ RunFromConfigBegin
    \/ CreateBlocks
    \/ RunIntegratorBegin
    \/ GeneralizedAlphaConstruct
    \/ StepBegin
    \/ NewtonIteration
    \/ StepEnd
    \/ RunIntegratorReturn
    \/ SteadyInitial
    \/ FormatResults

Spec == Init /\ [][Next]_vars

(***************************************************************************)
(* Properties.                                                             *)
(***************************************************************************)
SteadyInitialOn ==
    OrElse(GetOpt(parameters.simulation_parameters, "steady_initial"), TRUE)

\* C1: whenever create_blocks has built a model without raising, the number of
\* equations registered at the DOF handler equals the number of its variables,
\* and this number is the length of y and the size of the integrator's matrices.
C1_EquationsEqualVariables ==
    /\ pc \in {"run_integrator", "construct"}
          => DofN(dofhandler) = Len(dofhandler.variables)
    /\ pc \in {"loop", "newton"}
          => /\ Get(integrator).n = DofN(dofhandler)
             /\ y.n = DofN(dofhandler)
             /\ DofN(dofhandler) = Len(dofhandler.variables)

\* C2: once a Newton iteration of step has computed a residual that holds a
\* NaN, the run has aborted with an error: it is not in a further iteration or
\* a later time step.
C2_NaNResidualAborts ==
    (~IsNone(newton.res) /\ Get(newton.res).nan) => pc = "raised"

\* C3: a call of step never evaluates more than max_iter residuals nor solves
\* more than max_iter linear systems, and a step that used all max_iter
\* iterations without meeting the tolerance does not raise in step.
C3_ExhaustedStepContinues ==
    ~IsNone(integrator) =>
        /\ newton.evals <= Max2(Get(integrator).max_iter, 0)
        /\ newton.solves <= Max2(Get(integrator).max_iter, 0)
        /\ (pc = "raised" /\ ~newton.broke
                /\ newton.evals = Get(integrator).max_iter)
              => raised_in # "step"

\* C4: with steady_initial true or absent, run_from_config takes the last y and
\* ydot of the steady pre-pass as the initial state of the pulsatile run, so
\* that the first output sample of every vessel is read from that state; with
\* steady_initial false there is no pre-pass and the pulsatile run starts from
\* the zero state.
C4_SteadyInitialState ==
    entry = "run_from_config" =>
        /\ (pc = "create" /\ phase = "pulsatile" /\ SteadyInitialOn)
              => /\ y_initial = Some(Get(ret).y_list[Len(Get(ret).y_list)])
                 /\ ydot_initial = Some(Get(ret).ydot_list[Len(Get(ret).ydot_list)])
                 /\ Get(y_initial).s = Get(ret).time_steps.len - 1
        /\ (phase = "pulsatile" /\ pc \in {"loop", "newton", "returned", "done"})
              => IF SteadyInitialOn
                 THEN /\ y_over_time[1] = Get(y_initial)
                      /\ ydot_over_time[1] = Get(ydot_initial)
                      /\ ~IsNone(steady_parameters)
                 ELSE /\ y_over_time[1] = Zeros(DofN(dofhandler), "y")
                      /\ ydot_over_time[1] = Zeros(DofN(dofhandler), "ydot")
                      /\ IsNone(steady_parameters)
        /\ pc = "done"
              => \A i \in 1..Len(Get(result)) :
                    Get(result)[i].time = R(0) =>
                        Get(result)[i].flow_in[1] =
                            IF SteadyInitialOn THEN Get(y_initial)
                            ELSE Zeros(DofN(dofhandler), "y")

\* C4 witness: a run with the pre-pass has delivered its result
C4_Witness ==
    /\ entry = "run_from_config" /\ pc = "done" /\ SteadyInitialOn
    /\ Len(Get(result)) > 0
    /\ Get(y_initial).s > 0

\* the arithmetic mean of a configuration value
MeanOf(v) ==
    IF v.list THEN Scalar(Rat(SumRat(v.items).num, SumRat(v.items).den * Len(v.items)))
    ELSE v

\* C5: for every configuration, whether the values of a boundary condition are
\* a time series or scalars, convert_unsteady_bcs_to_steady returns a
\* configuration in which every FLOW, PRESSURE and CORONARY boundary condition
\* has no time array and the mean in place of Q, P or Pim, every RCR has C = 0,
\* and every other value is as in the input.
C5_ConvertCollapses ==
    (entry = "run_from_config" /\ SteadyInitialOn /\ pc # "run_from_config") =>
        /\ ~IsNone(steady_parameters)
        /\ \A i \in 1..Len(parameters.boundary_conditions) :
              LET bc == parameters.boundary_conditions[i]
                  sbc == Get(steady_parameters).boundary_conditions[i]
                  changed == IF bc.bc_type \in BcIdentifierTypes
                             THEN {"t", BcIdentifier(bc.bc_type)}
                             ELSE IF bc.bc_type = "RCR" THEN {"C"} ELSE {}
              IN  /\ sbc.bc_type = bc.bc_type
                  /\ bc.bc_type \in BcIdentifierTypes =>
                        /\ ~HasKey(sbc.bc_values, "t")
                        /\ sbc.bc_values[BcIdentifier(bc.bc_type)]
                              = MeanOf(bc.bc_values[BcIdentifier(bc.bc_type)])
                  /\ bc.bc_type = "RCR" => sbc.bc_values["C"] = Scalar(R(0))
                  /\ \A key \in (DOMAIN bc.bc_values) \ changed :
                        HasKey(sbc.bc_values, key) /\ sbc.bc_values[key] = bc.bc_values[key]

\* C6: the result of run_from_config holds, per vessel, only the last
\* number_of_time_pts_per_cardiac_cycle samples when output_all_cycles is
\* false, and every simulated sample when it is true or absent.
C6_OutputLastCycle ==
    (entry = "run_from_config" /\ pc = "done") =>
        Len(Get(result)) =
            Len(SelectSeq(block_list, LAMBDA b : b.kind = "BloodVessel"))
            * (IF GetOpt(parameters.simulation_parameters, "output_all_cycles") = Some(FALSE)
               THEN parameters.simulation_parameters["number_of_time_pts_per_cardiac_cycle"]
               ELSE Len(Get(ret).y_list))

\* the positions of the BloodVessel blocks in block_list, in order
VesselPositions ==
    SelectSeq([i \in 1..Len(block_list) |-> i],
              LAMBDA i : block_list[i].kind = "BloodVessel")

\* C7: the result has one entry per BloodVessel block, in the order of the block
\* list, and for no other block; per time step one row, whose flow_in and
\* pressure_in are the sample at the flow and pressure DOF of the vessel's first
\* inflow node and whose flow_out and pressure_out those of its first outflow
\* node.
C7_OneRowPerVesselAndStep ==
    (entry = "run_from_config" /\ pc = "done") =>
        /\ Len(Get(result)) = Len(VesselPositions) * Get(ret).time_steps.len
        /\ \A j \in 1..Len(VesselPositions), i \in 1..Get(ret).time_steps.len :
              LET row == Get(result)[(j - 1) * Get(ret).time_steps.len + i]
                  vessel == block_list[VesselPositions[j]]
                  sample == Get(ret).y_list[i]
              IN  /\ row.name = vessel.name
                  /\ row.flow_in = <<sample, vessel.inflow_nodes[1].flow_dof>>
                  /\ row.pressure_in = <<sample, vessel.inflow_nodes[1].pres_dof>>
                  /\ row.flow_out = <<sample, vessel.outflow_nodes[1].flow_dof>>
                  /\ row.pressure_out = <<sample, vessel.outflow_nodes[1].pres_dof>>

\* C7 witness: the result of a model with several vessels and other blocks
C7_Witness ==
    /\ entry = "run_from_config" /\ pc = "done"
    /\ Len(VesselPositions) >= 2
    /\ Len(block_list) > Len(VesselPositions)
    /\ Len(Get(result)) >= 2 * Len(VesselPositions)

\* C8: run_integrator returns num_time_steps time points and as many y and
\* ydot samples; sample 0 is the initial state passed in (zeros when none is
\* passed) and sample k+1 is the result of step for sample k at time point k.
C8_RunIntegratorSamples ==
    (entry # "GeneralizedAlpha" /\ pc \in {"returned", "done"}) =>
        /\ Get(ret).time_steps.len = call.num_time_steps
        /\ Len(Get(ret).y_list) = call.num_time_steps
        /\ Len(Get(ret).ydot_list) = call.num_time_steps
        /\ Get(ret).y_list[1] = IF IsNone(call.y_initial)
                                THEN Zeros(DofN(dofhandler), "y")
                                ELSE Get(call.y_initial)
        /\ \A i \in 1..(Len(Get(ret).y_list) - 1) :
              /\ Get(ret).y_list[i + 1].s = Get(ret).y_list[i].s + 1
              /\ Get(ret).y_list[i + 1].time
                    = Some(Rat((i - 1) * call.time_step_size.num, call.time_step_size.den))

\* C9: when the caller of run_integrator or of GeneralizedAlpha gives no atol,
\* the Newton loop is left by break exactly on residuals of at most 1e-8, and
\* when it gives no max_iter the loop allows 30 iterations.
C9_DefaultToleranceAndIterations ==
    (entry # "run_from_config" /\ ~IsNone(integrator)) =>
        /\ (IsNone(call.atol) /\ ~IsNone(newton.res) /\ ~Get(newton.res).nan)
              => (newton.broke <=> Get(newton.res).abs <= 1)
        /\ IsNone(call.max_iter) => Get(integrator).max_iter = 30

\* a call of step has returned
StepReturned == pc \in {"loop", "returned", "done", "create"} /\ ~IsNone(newton.iter)

\* C10: a step has printed the report exactly when its Newton loop ended
\* without the residual meeting the tolerance.
C10_ReportIffNotConverged ==
    StepReturned => (newton.reported <=> ~newton.broke)

\* the connections of a configuration in the order of their emission: of each
\* junction its inlet vessels, then its outlet vessels; then of each vessel its
\* inlet and its outlet boundary condition
RECURSIVE JunctionConnections(_)
JunctionConnections(junctions) ==
    IF Len(junctions) = 0 THEN <<>>
    ELSE [i \in 1..Len(junctions[1].inlet_vessels) |->
             <<VesselName(junctions[1].inlet_vessels[i]), junctions[1].junction_name>>]
         \o [i \in 1..Len(junctions[1].outlet_vessels) |->
             <<junctions[1].junction_name, VesselName(junctions[1].outlet_vessels[i])>>]
         \o JunctionConnections(Tail(junctions))

RECURSIVE BoundaryConnections(_)
BoundaryConnections(vessels) ==
    IF Len(vessels) = 0 THEN <<>>
    ELSE LET v == vessels[1]
             ends == IF IsNone(v.boundary_conditions)
                     THEN [inlet |-> None, outlet |-> None]
                     ELSE Get(v.boundary_conditions)
         IN  (IF IsNone(ends.inlet) THEN <<>>
              ELSE << <<BcName(v.vessel_id, "inlet"), VesselName(v.vessel_id)>> >>)
             \o (IF IsNone(ends.outlet) THEN <<>>
                 ELSE << <<VesselName(v.vessel_id), BcName(v.vessel_id, "outlet")>> >>)
             \o BoundaryConnections(Tail(vessels))

EmittedConnections(cfg) ==
    JunctionConnections(cfg.junctions) \o BoundaryConnections(cfg.vessels)

BlockNamed(name) == block_list[CHOOSE i \in 1..Len(block_list) : block_list[i].name = name]

\* the nodes of the model and the DOF of their flow and pressure
NodeFlowDofs ==
    UNION {{b.inflow_nodes[i].flow_dof : i \in 1..Len(b.inflow_nodes)}
             \cup {b.outflow_nodes[i].flow_dof : i \in 1..Len(b.outflow_nodes)} :
           b \in {block_list[i] : i \in 1..Len(block_list)}}
NodePresDofs ==
    UNION {{b.inflow_nodes[i].pres_dof : i \in 1..Len(b.inflow_nodes)}
             \cup {b.outflow_nodes[i].pres_dof : i \in 1..Len(b.outflow_nodes)} :
           b \in {block_list[i] : i \in 1..Len(block_list)}}

\* the IDs of the internal variables of a block: the last columns of the block
InternalVarIds(b) ==
    {b.global_col_id[c] :
        c \in (Len(b.global_col_id) - b.NUM_INTERNAL_VARS + 1)..Len(b.global_col_id)}

\* C11: after create_blocks, the node of the k-th emitted connection (A, B), k
\* counted from 0, has flow_dof 2k under the variable name Q_A_B and pres_dof
\* 2k + 1 under the name P_A_B, as outflow node of A and as inflow node of B;
\* there are no other nodes, and every internal variable of a block has an ID
\* larger than every node DOF.
C11_NodeDofsLowAndOrdered ==
    block_list # <<>> =>
      LET conns == EmittedConnections(config)
          K == Len(conns)
      IN  /\ \A n \in 0..(K - 1) :
                LET A == conns[n + 1][1]
                    B == conns[n + 1][2]
                    name == A \o <<"_">> \o B
                    node == [name |-> name, flow_dof |-> 2 * n, pres_dof |-> 2 * n + 1]
                IN  /\ dofhandler.variables[2 * n + 1] = <<"Q", "_">> \o name
                    /\ dofhandler.variables[2 * n + 2] = <<"P", "_">> \o name
                    /\ \E i \in 1..Len(BlockNamed(A).outflow_nodes) :
                          BlockNamed(A).outflow_nodes[i] = node
                    /\ \E i \in 1..Len(BlockNamed(B).inflow_nodes) :
                          BlockNamed(B).inflow_nodes[i] = node
          /\ NodeFlowDofs = {2 * n : n \in 0..(K - 1)}
          /\ NodePresDofs = {2 * n + 1 : n \in 0..(K - 1)}
          /\ \A i \in 1..Len(block_list) :
                \A v \in InternalVarIds(block_list[i]) :
                    /\ v >= 2 * K
                    /\ \A d \in NodeFlowDofs \cup NodePresDofs : v > d

\* a model of three vessels at a junction has been built: six connections and
\* internal variables behind them
C11_Witness ==
    /\ pc = "run_integrator"
    /\ Len(EmittedConnections(config)) = 6
    /\ \E i \in 1..Len(block_list) : InternalVarIds(block_list[i]) # {}
    /\ Len(dofhandler.variables) > 12

\* the j-th column ID (j from 0) that a block is to have: the pressure and the
\* flow DOF of each inflow node, then of each outflow node, then the internal
\* variables in the order of their registration (var_0, var_1, ...)
ExpectedColumn(b, j) ==
    LET ni == Len(b.inflow_nodes)
        no == Len(b.outflow_nodes)
        wire == IF j < 2 * ni THEN b.inflow_nodes[(j \div 2) + 1]
                ELSE b.outflow_nodes[((j - 2 * ni) \div 2) + 1]
    IN  IF j < 2 * (ni + no)
        THEN IF j % 2 = 0 THEN wire.pres_dof ELSE wire.flow_dof
        ELSE (CHOOSE x \in 1..Len(dofhandler.variables) :
                 dofhandler.variables[x] =
                     <<"v", "a", "r", "_">> \o Str(j - 2 * (ni + no)) \o <<"_">> \o b.name) - 1

LocalColumns(b) ==
    2 * (Len(b.inflow_nodes) + Len(b.outflow_nodes)) + b.NUM_INTERNAL_VARS

\* C12: after setup_dofs a block with r = NUM_EQUATIONS rows and c = 2 (inflow
\* nodes + outflow nodes) + NUM_INTERNAL_VARS columns has two flat index arrays
\* of length r c whose k-th entries are (row_ids[k div c], col_ids[k mod c]),
\* the columns being the (pressure, flow) pairs of the inflow nodes, then of
\* the outflow nodes, then the internal variables; and once the blocks are
\* assembled, the global matrix holds local entry (i, j) of each block at
\* (row_ids[i], col_ids[j]).
C12_FlatIndexArrays ==
    block_list # <<>> =>
      \A x \in 1..Len(block_list) :
        LET b == block_list[x]
            r == b.NUM_EQUATIONS
            c == LocalColumns(b)
        IN  /\ Len(b.global_row_id) = r
            /\ Len(b.flat_row_ids) = r * c
            /\ Len(b.flat_col_ids) = r * c
            /\ \A n \in 0..(r * c - 1) :
                  /\ b.flat_row_ids[n + 1] = b.global_row_id[(n \div c) + 1]
                  /\ b.flat_col_ids[n + 1] = ExpectedColumn(b, n % c)
            /\ (pc = "newton" /\ newton.evals >= 1) =>
                  \A i \in 0..(r - 1), j \in 0..(c - 1) :
                      /\ <<b.global_row_id[i + 1], ExpectedColumn(b, j)>> \in DOMAIN mat.F
                      /\ mat.F[<<b.global_row_id[i + 1], ExpectedColumn(b, j)>>]
                            = <<b.name, i, j>>

\* the blocks of three vessels at a junction have been assembled: blocks of 1, 2
\* and 3 rows, of 2, 3, 5 and 6 columns
C12_Witness ==
    /\ pc = "newton"
    /\ newton.evals >= 1
    /\ \E x \in 1..Len(block_list) :
          block_list[x].kind = "Junction" /\ Len(block_list[x].flat_row_ids) = 18
    /\ \E x \in 1..Len(block_list) :
          block_list[x].kind = "BloodVessel" /\ Len(block_list[x].flat_col_ids) = 15
    /\ \E x \in 1..Len(block_list) :
          block_list[x].kind = "WindkesselBC" /\ Len(block_list[x].flat_col_ids) = 6

\* the equation rows of a block and the positions of the global matrix that
\* its flat indices address
RowIds(b) == {b.global_row_id[i] : i \in 1..Len(b.global_row_id)}
MatrixPositions(b) ==
    {<<b.flat_row_ids[x], b.flat_col_ids[x]>> : x \in 1..Len(b.flat_row_ids)}

\* C13: after create_blocks the sets of equation rows of distinct blocks are
\* pairwise disjoint and together are {0, ..., N - 1}; no position of a global
\* matrix or of the global vector is written by two blocks, and assembling all
\* blocks once more leaves the assembled global system as it is.
C13_DisjointRowsIdempotentAssembly ==
    block_list # <<>> =>
      /\ \A x, z \in 1..Len(block_list) :
            x # z => /\ RowIds(block_list[x]) \cap RowIds(block_list[z]) = {}
                     /\ MatrixPositions(block_list[x])
                           \cap MatrixPositions(block_list[z]) = {}
      /\ UNION {RowIds(block_list[x]) : x \in 1..Len(block_list)}
            = 0..(DofN(dofhandler) - 1)
      /\ (pc = "newton" /\ newton.evals >= 1) =>
            /\ \A p \in DOMAIN mat.F :
                  Cardinality({x \in 1..Len(block_list) :
                                  p \in MatrixPositions(block_list[x])}) = 1
            /\ \A p \in DOMAIN mat.C :
                  Cardinality({x \in 1..Len(block_list) :
                                  p[1] \in RowIds(block_list[x])}) = 1
            /\ GeneralizedAlpha_assemble(block_list, mat, Get(integrator).n) = mat

\* the seven blocks of three vessels at a junction have been assembled in two
\* time steps
C13_Witness ==
    /\ pc = "newton"
    /\ newton.evals >= 1
    /\ k >= 1
    /\ Len(block_list) = 7
    /\ DOMAIN mat.F # {}
    /\ DOMAIN mat.C # {}

\* the group of a block in the order junctions, vessels, boundary conditions
BlockGroup(b) ==
    CASE b.kind = "Junction" -> 0
      [] b.kind = "BloodVessel" -> 1
      [] OTHER -> 2

\* C14: the block list returned by create_blocks has all junctions first, then
\* all vessels, then all boundary conditions, and the blocks of each group are
\* sorted by name.
C14_BlockListGroupedAndSorted ==
    block_list # <<>> =>
      \A x \in 1..(Len(block_list) - 1) :
        \/ BlockGroup(block_list[x]) < BlockGroup(block_list[x + 1])
        \/ /\ BlockGroup(block_list[x]) = BlockGroup(block_list[x + 1])
           /\ StrLess(block_list[x].name, block_list[x + 1].name)

VariableCalls == SelectSeq(dof_calls, LAMBDA c : c.op = "register_variable")
EquationCalls == SelectSeq(dof_calls, LAMBDA c : c.op = "register_equation")

\* C15: after any sequence of calls on a fresh DOFHandler, the i-th call of
\* register_variable (i from 0) returned i and variables[i] is the name it was
\* given, the j-th call of register_equation returned j, n is the number of
\* register_equation calls, and the variables list holds the names of the
\* register_variable calls only, in call order.
C15_DenseIdsInCallOrder ==
    entry = "DOFHandler" =>
      /\ \A i \in 0..(Len(VariableCalls) - 1) :
            /\ VariableCalls[i + 1].returned = i
            /\ dofhandler.variables[i + 1] = VariableCalls[i + 1].name
      /\ Len(dofhandler.variables) = Len(VariableCalls)
      /\ \A j \in 0..(Len(EquationCalls) - 1) : EquationCalls[j + 1].returned = j
      /\ DofN(dofhandler) = Len(EquationCalls)

\* calls of both kinds have been made, interleaved
C15_Witness ==
    /\ entry = "DOFHandler"
    /\ Len(dof_calls) = MaxDofCalls
    /\ dof_calls[1].op = "register_variable"
    /\ dof_calls[2].op = "register_equation"
    /\ dof_calls[3].op = "register_variable"
    /\ dof_calls[3].name # dof_calls[1].name
    /\ dof_calls[4].op = "register_equation"

\* the letter J followed by one or more digits
IsJAndDigits(name) ==
    /\ Len(name) >= 2
    /\ name[1] = "J"
    /\ \A i \in 2..Len(name) : IsNumeric(name[i])

\* run_from_config has called create_blocks, which reached Junction.from_config
\* for the first junction of the configuration
FirstJunctionCreated ==
    /\ entry = "run_from_config"
    /\ pc \notin {"run_from_config", "create"}
    /\ raised_in # "convert_unsteady_bcs_to_steady"
    /\ Len(config.junctions) >= 1
    /\ config.junctions[1].junction_type \in {"NORMAL_JUNCTION", "internal_junction"}

\* C16: Junction.from_config raises ValueError for every junction_name that is
\* not the letter J followed by one or more digits, and returns a junction
\* block for every name of that form.
C16_JunctionNameValidated ==
    FirstJunctionCreated =>
      LET name == config.junctions[1].junction_name
          rejected == /\ pc = "raised"
                      /\ raised_in = "create_blocks"
                      /\ err = "ValueError"
                      /\ err_msg.text = "Invalid junction name"
      IN  IF IsJAndDigits(name)
          THEN /\ ~rejected
               /\ block_list # <<>> =>
                     \E x \in 1..Len(block_list) :
                        block_list[x].kind = "Junction" /\ block_list[x].name = name
          ELSE rejected

\* the names that the blocks of a configuration are to receive: the junctions,
\* then each vessel with the boundary conditions at its ends
RECURSIVE VesselBlockNames(_)
VesselBlockNames(vessels) ==
    IF Len(vessels) = 0 THEN <<>>
    ELSE LET v == vessels[1]
             ends == IF IsNone(v.boundary_conditions)
                     THEN [inlet |-> None, outlet |-> None]
                     ELSE Get(v.boundary_conditions)
         IN  <<VesselName(v.vessel_id)>>
             \o (IF IsNone(ends.inlet) THEN <<>> ELSE <<BcName(v.vessel_id, "inlet")>>)
             \o (IF IsNone(ends.outlet) THEN <<>> ELSE <<BcName(v.vessel_id, "outlet")>>)
             \o VesselBlockNames(Tail(vessels))

BlockNames(cfg) ==
    [i \in 1..Len(cfg.junctions) |-> cfg.junctions[i].junction_name]
        \o VesselBlockNames(cfg.vessels)

HasDuplicate(names) ==
    \E i, j \in 1..Len(names) : i # j /\ names[i] = names[j]

\* run_from_config has called create_blocks
BuilderRan ==
    /\ entry = "run_from_config"
    /\ pc \notin {"run_from_config", "create"}
    /\ raised_in # "convert_unsteady_bcs_to_steady"

\* C17: create_blocks raises whenever two blocks of the configuration are to
\* receive one name, whatever their kinds, and a model it returns has a block of
\* its own for every junction, vessel and boundary condition.
C17_DuplicateNamesRejected ==
    /\ (BuilderRan /\ HasDuplicate(BlockNames(config)))
          => pc = "raised" /\ raised_in = "create_blocks"
    /\ (BuilderRan /\ block_list # <<>>)
          => Len(block_list) = Len(BlockNames(config))

\* the junctions, vessels and attached boundary conditions of unknown type
UnknownJunctions(cfg) ==
    {i \in 1..Len(cfg.junctions) :
        cfg.junctions[i].junction_type \notin {"NORMAL_JUNCTION", "internal_junction"}}
UnknownVessels(cfg) ==
    {i \in 1..Len(cfg.vessels) : cfg.vessels[i].zero_d_element_type # "BloodVessel"}
EndNames(v) ==
    IF IsNone(v.boundary_conditions) THEN {}
    ELSE {Get(e) : e \in {x \in {Get(v.boundary_conditions).inlet,
                                 Get(v.boundary_conditions).outlet} : ~IsNone(x)}}
UnknownBcs(cfg) ==
    {i \in 1..Len(cfg.boundary_conditions) :
        /\ cfg.boundary_conditions[i].bc_type
              \notin {"RESISTANCE", "RCR", "FLOW", "PRESSURE", "CORONARY"}
        /\ \E x \in 1..Len(cfg.vessels) :
              cfg.boundary_conditions[i].bc_name \in EndNames(cfg.vessels[x])}

\* what the value formatted into a message is
MsgArgKind(m) ==
    CASE m.text = "Unknown junction type" -> "junction_type"
      [] m.text \in {"Invalid junction name", "Junction already exists"} -> "block_name"
      [] m.text = "Vessel already exists" -> "block_name"
      [] m.text = PeriodMismatch -> "vessel_id"
      [] OTHER -> "none"

\* the message names an offending type, or the junction or vessel that has it
MsgNamesUnknown(m, cfg) ==
    \/ /\ MsgArgKind(m) = "junction_type"
       /\ \E i \in UnknownJunctions(cfg) : m.args[1] = cfg.junctions[i].junction_type
    \/ /\ MsgArgKind(m) = "block_name"
       /\ \/ \E i \in UnknownJunctions(cfg) : m.args[1] = cfg.junctions[i].junction_name
          \/ \E i \in UnknownVessels(cfg) : m.args[1] = VesselName(cfg.vessels[i].vessel_id)
    \/ /\ MsgArgKind(m) = "vessel_id"
       /\ \/ \E i \in UnknownVessels(cfg) : m.args[1] = cfg.vessels[i].vessel_id
          \/ \E i \in UnknownBcs(cfg), x \in 1..Len(cfg.vessels) :
                /\ cfg.boundary_conditions[i].bc_name \in EndNames(cfg.vessels[x])
                /\ m.args[1] = cfg.vessels[x].vessel_id

\* C18: when the configuration has a junction, a vessel or an attached boundary
\* condition of an unknown type, the model builder raises an error whose message
\* names the offending type or entity, and returns no model.
C18_UnknownTypeNamedInError ==
    (/\ BuilderRan
     /\ UnknownJunctions(config) \cup UnknownVessels(config) \cup UnknownBcs(config) # {})
      => /\ pc = "raised"
         /\ raised_in = "create_blocks"
         /\ block_list = <<>>
         /\ MsgNamesUnknown(err_msg, config)

\* the boundary conditions at the vessel ends of a configuration in the order
\* in which the builder visits them (each vessel's inlet, then its outlet):
\* [vessel_id, bc]; an end whose name the list does not have is left out
RECURSIVE AttachedBcs(_, _)
AttachedBcs(vessels, bcs) ==
    IF Len(vessels) = 0 THEN <<>>
    ELSE LET v == vessels[1]
             ends == IF IsNone(v.boundary_conditions) THEN <<>>
                     ELSE SelectSeq(<<Get(v.boundary_conditions).inlet,
                                      Get(v.boundary_conditions).outlet>>,
                                    LAMBDA e : ~IsNone(e))
             found == SelectSeq(ends, LAMBDA e :
                                   \E i \in 1..Len(bcs) : bcs[i].bc_name = Get(e))
         IN  [x \in 1..Len(found) |->
                 [vessel_id |-> v.vessel_id,
                  bc |-> bcs[CHOOSE i \in 1..Len(bcs) :
                               /\ bcs[i].bc_name = Get(found[x])
                               /\ \A j \in 1..(i - 1) : bcs[j].bc_name # Get(found[x])]]]
             \o AttachedBcs(Tail(vessels), bcs)

AllEndsResolve(cfg) ==
    \A x \in 1..Len(cfg.vessels) :
        \A nm \in EndNames(cfg.vessels[x]) :
            \E i \in 1..Len(cfg.boundary_conditions) :
                cfg.boundary_conditions[i].bc_name = nm

\* a boundary condition that carries a time sequence of at least two points
CarriesTimes(bc) ==
    /\ "t" \in DOMAIN bc.bc_values
    /\ bc.bc_values["t"].list
    /\ Len(bc.bc_values["t"].items) >= 2

\* The walk over the attached boundary conditions from the i-th on under the
\* period in effect (None: none yet): the vessel of the first boundary
\* condition whose time span differs from the period in effect, and the period
\* in effect at the end.
RECURSIVE PeriodWalk(_, _, _)
PeriodWalk(attached, i, period) ==
    IF i > Len(attached) THEN [differs |-> None, period |-> period]
    ELSE IF ~CarriesTimes(attached[i].bc) THEN PeriodWalk(attached, i + 1, period)
    ELSE LET t == attached[i].bc.bc_values["t"].items
             span == Rat(t[Len(t)].num * t[1].den - t[1].num * t[Len(t)].den,
                         t[Len(t)].den * t[1].den)
         IN  IF IsNone(period) THEN PeriodWalk(attached, i + 1, Some(span))
             ELSE IF span # Get(period)
             THEN [differs |-> Some(attached[i].vessel_id), period |-> period]
             ELSE PeriodWalk(attached, i + 1, period)

\* create_blocks has run in the current phase of run_from_config; the
\* configuration it was given, and that configuration as it left it
PassBuilt == BuilderRan /\ (phase = "steady" => ~IsNone(steady_parameters))
PassGiven ==
    IF phase = "steady" THEN convert_unsteady_bcs_to_steady(config).val ELSE config
PassLeft == IF phase = "steady" THEN Get(steady_parameters) ELSE parameters

PeriodRaised ==
    /\ pc = "raised"
    /\ raised_in = "create_blocks"
    /\ err = "RuntimeError"
    /\ err_msg.text = PeriodMismatch

\* what PeriodWalk yields for the configuration given to the current pass
PeriodOutcome(w) ==
    /\ ~IsNone(w.differs) => PeriodRaised /\ err_msg.args = <<Get(w.differs)>>
    /\ IsNone(w.differs) => ~PeriodRaised
    /\ (IsNone(w.differs) /\ block_list # <<>>) =>
          GetOpt(PassLeft.simulation_parameters, "cardiac_cycle_period") = w.period

\* C19: while the model is built, the first boundary condition at a vessel end
\* that carries a time sequence of at least two points sets
\* cardiac_cycle_period, when the configuration gives none, to its last time
\* minus its first time; and the first boundary condition whose time span
\* differs from the period then in effect makes the builder raise RuntimeError
\* naming the vessel.  (Configurations in which every vessel end names an
\* existing boundary condition.)
C19_PeriodPropagatedAndChecked ==
    (PassBuilt /\ AllEndsResolve(config)) =>
        PeriodOutcome(PeriodWalk(
            AttachedBcs(PassGiven.vessels, PassGiven.boundary_conditions), 1,
            GetOpt(PassGiven.simulation_parameters, "cardiac_cycle_period")))

\* no period given: the inlet boundary condition, with times from 1 to 3, has
\* set the period 2, and the outlet boundary condition of span 1 was rejected
C19_Witness ==
    /\ PeriodRaised
    /\ phase = "pulsatile"
    /\ "cardiac_cycle_period" \notin DOMAIN config.simulation_parameters
    /\ GetOpt(parameters.simulation_parameters, "cardiac_cycle_period") = Some(R(2))
    /\ config.boundary_conditions[1].bc_values["t"].items[1] = R(1)
    /\ err_msg.args = <<0>>

\* C20: when a vessel end names a boundary condition that the list does not
\* have, create_blocks raises and returns no model: run_from_config never holds
\* a block list and never starts a time step.
C20_MissingBoundaryConditionRejected ==
    (entry = "run_from_config" /\ ~AllEndsResolve(config)) =>
      /\ block_list = <<>>
      /\ newton = NoNewton
      /\ pc \in {"run_from_config", "create", "raised"}
      /\ BuilderRan => pc = "raised" /\ raised_in = "create_blocks"

\* the outlet of a vessel names a missing boundary condition after its inlet
\* was found: the builder went on with the inlet's configuration and failed on
\* the connection to the block that was never created
C20_Witness ==
    /\ entry = "run_from_config"
    /\ ~AllEndsResolve(config)
    /\ pc = "raised"
    /\ raised_in = "create_blocks"
    /\ err = "KeyError"
    /\ Len(config.vessels) = 1

\* the numbers of connections of a configuration that end and that start at
\* the block of a name: its inflow and its outflow nodes
InflowCount(cfg, name) ==
    Cardinality({i \in 1..Len(EmittedConnections(cfg)) :
                    EmittedConnections(cfg)[i][2] = name})
OutflowCount(cfg, name) ==
    Cardinality({i \in 1..Len(EmittedConnections(cfg)) :
                    EmittedConnections(cfg)[i][1] = name})

\* the vessels whose nodes do not match the five columns of the local matrices
\* of a BloodVessel (one inflow node, one outflow node, one internal variable)
InconsistentVessels(cfg) ==
    {i \in 1..Len(cfg.vessels) :
        \/ InflowCount(cfg, VesselName(cfg.vessels[i].vessel_id)) # 1
        \/ OutflowCount(cfg, VesselName(cfg.vessels[i].vessel_id)) # 1}

\* C21: a configuration in which a vessel ends up with a number of inflow and
\* outflow nodes that does not match the columns of its local matrices is
\* rejected by create_blocks: the builder raises, and no integrator is started.
C21_InconsistentMultiplicityRejected ==
    (entry = "run_from_config" /\ InconsistentVessels(config) # {}) =>
      /\ IsNone(integrator)
      /\ BuilderRan => pc = "raised" /\ raised_in = "create_blocks"

\* what the claim compares of a model: the names of the blocks in order, the
\* row and column IDs of every block, the DOF of every node and the variables
ModelLayout(model) ==
    [names |-> [i \in 1..Len(model.block_list) |-> model.block_list[i].name],
     rows |-> [i \in 1..Len(model.block_list) |-> model.block_list[i].global_row_id],
     cols |-> [i \in 1..Len(model.block_list) |-> model.block_list[i].global_col_id],
     flat |-> [i \in 1..Len(model.block_list) |->
                  <<model.block_list[i].flat_row_ids, model.block_list[i].flat_col_ids>>],
     nodes |-> [i \in 1..Len(model.block_list) |->
                  <<model.block_list[i].inflow_nodes, model.block_list[i].outflow_nodes>>],
     variables |-> model.dofhandler.variables]

C30_ConvertLeavesCallerConfiguration ==
    (entry = "run_from_config" /\ pc # "run_from_config") =>
      /\ parameters.boundary_conditions = config.boundary_conditions
      /\ parameters.vessels = config.vessels
      /\ parameters.junctions = config.junctions
      /\ \A key \in DOMAIN config.simulation_parameters :
            /\ key \in DOMAIN parameters.simulation_parameters
            /\ parameters.simulation_parameters[key] = config.simulation_parameters[key]
      /\ (phase = "steady" /\ pc = "create") =>
            /\ parameters = config
            /\ Get(steady_parameters).simulation_parameters
                   ["number_of_time_pts_per_cardiac_cycle"] = SteadyPts
            /\ Get(steady_parameters).simulation_parameters
                   ["number_of_cardiac_cycles"] = SteadyCycles

\* the conversion has returned a configuration whose boundary conditions and
\* time stepping differ from the caller's
C30_Witness ==
    /\ entry = "run_from_config"
    /\ phase = "steady"
    /\ pc = "create"
    /\ Get(steady_parameters).boundary_conditions # config.boundary_conditions
    /\ config.simulation_parameters["number_of_time_pts_per_cardiac_cycle"] # SteadyPts
    /\ config.simulation_parameters["number_of_cardiac_cycles"] # SteadyCycles
    /\ \E i \in 1..Len(config.boundary_conditions) :
          /\ "t" \in DOMAIN config.boundary_conditions[i].bc_values
          /\ "t" \notin DOMAIN Get(steady_parameters).boundary_conditions[i].bc_values

\* the variables and the number of equations that a build registers
Registered(handler) == [variables |-> handler.variables, equations |-> DofN(handler)]

\* the pulsatile model of the caller's configuration
PulsatileModel == create_blocks(config, FALSE)

\* C29: when run_from_config has built a model (the state right after
\* create_blocks returned): the steady model, built from the converted configuration with
\* steady=True, and the pulsatile model, built from the configuration itself,
\* register the same variable names in the same order and the same number of
\* equations, so that the terminal state of the steady run has an entry for
\* every variable of the pulsatile model, in its order.
C29_SteadyAndPulsatileLayoutsAgree ==
    (entry = "run_from_config" /\ SteadyInitialOn) =>
      /\ (phase = "steady" /\ pc = "run_integrator" /\ PulsatileModel.err = "none")
            => Registered(dofhandler) = Registered(PulsatileModel.dofhandler)
      /\ (phase = "pulsatile" /\ pc = "run_integrator")
            => /\ Registered(dofhandler)
                    = Registered(create_blocks(Get(steady_parameters), TRUE).dofhandler)
               /\ Get(y_initial).n = DofN(dofhandler)
               /\ Get(y_initial).n = Len(dofhandler.variables)

\* the pulsatile model of a vessel with a coronary boundary condition has been
\* built after the steady run, whose model has no matrix E for that block
C29_Witness ==
    /\ entry = "run_from_config" /\ SteadyInitialOn
    /\ phase = "pulsatile"
    /\ pc = "run_integrator"
    /\ \E i \in 1..Len(block_list) : block_list[i].kind = "OpenLoopCoronaryBC"
    /\ Len(dofhandler.variables) = 6

\* the blocks whose element matrices are in the global system
Assembled(block, global) == \E p \in DOMAIN global.F : global.F[p][1] = block.name

\* the nodes of a block, inflow nodes first
Nodes(block) == block.inflow_nodes \o block.outflow_nodes

AssembledJunctions ==
    {i \in 1..Len(block_list) :
        block_list[i].kind = "Junction" /\ Assembled(block_list[i], mat)}

\* C25: the rows of an assembled junction in the global F: row i of the first
\* n_in + n_out - 1 rows has +1 at the pressure DOF of the first node and -1 at
\* the pressure DOF of node i + 2, the last row has +1 at the flow DOF of every
\* inflow node and -1 at the flow DOF of every outflow node, every other
\* column of these rows is zero
C25_JunctionRows ==
    \A b \in {block_list[i] : i \in AssembledJunctions} :
        LET nodes == Nodes(b)
            n == Len(nodes)
        IN  /\ Len(b.global_row_id) = n
            /\ \A i \in 0..(n - 1), col \in 0..(Get(integrator).n - 1) :
                  GlobalF(block_list, mat, b.global_row_id[i + 1], col) =
                     IF i < n - 1
                     THEN IF col = nodes[i + 2].pres_dof THEN R(-1)
                          ELSE IF col = nodes[1].pres_dof THEN R(1)
                          ELSE R(0)
                     ELSE IF \E x \in 1..Len(b.inflow_nodes) :
                                b.inflow_nodes[x].flow_dof = col THEN R(1)
                          ELSE IF \E x \in 1..Len(b.outflow_nodes) :
                                b.outflow_nodes[x].flow_dof = col THEN R(-1)
                          ELSE R(0)

C25_Witness ==
    /\ pc = "newton"
    /\ \E i \in AssembledJunctions :
          /\ Len(block_list[i].inflow_nodes) = 1
          /\ Len(block_list[i].outflow_nodes) = 2

\* The value of a number under an assignment of values to the numbers that
\* are not computed: sample 1 gives entry dof of a vector dof + 1 and a spline
\* its first value plus 1, sample 2 gives them -(dof + 2) and the first value
\* minus 2.
RECURSIVE Eval(_, _)
Eval(v, sample) ==
    IF IsExact(v) THEN v
    ELSE CASE v.op = "entry" ->
                 IF sample = 1 THEN RatAdd(v.b, R(1)) ELSE RatNeg(RatAdd(v.b, R(2)))
           [] v.op = "spline" ->
                 IF sample = 1 THEN RatAdd(v.a.values[1], R(1))
                 ELSE RatSub(v.a.values[1], R(2))
           [] v.op = "neg" -> RatNeg(Eval(v.a, sample))
           [] v.op = "abs" -> RatAbs(Eval(v.a, sample))
           [] v.op = "add" -> RatAdd(Eval(v.a, sample), Eval(v.b, sample))
           [] v.op = "sub" -> RatSub(Eval(v.a, sample), Eval(v.b, sample))
           [] OTHER -> RatMul(Eval(v.a, sample), Eval(v.b, sample))

Samples == {1, 2}

\* two numbers that agree: equal when computed, and of equal value under
\* every sample otherwise
Same(v, w) == \A sample \in Samples : Eval(v, sample) = Eval(w, sample)

SameMatrix(m, w) ==
    /\ Len(m) = Len(w)
    /\ \A i \in 1..Len(m) :
          Len(m[i]) = Len(w[i]) /\ \A j \in 1..Len(m[i]) : Same(m[i][j], w[i][j])

Vessels(blocks) == {i \in 1..Len(blocks) : blocks[i].kind = "BloodVessel"}

\* a pass of the loop body that called update_solution on every block
UpdateSolutionDone ==
    /\ pc = "newton"
    /\ newton'.iter # newton.iter
    /\ raised_in' # "update_solution"

\* C26: a BloodVessel without stenosis coefficient keeps the E, F and dF of its
\* construction through every update_time and update_solution; one with a
\* coefficient K has, after update_solution(y), F[0,1] = F[2,1] = -(R + K|Q_in|)
\* and dF[0,1] = dF[2,1] = -K|Q_in| for Q_in = y[flow DOF of the first inflow
\* node], and the values of its construction in every other entry
C26_VesselContributions ==
    [][\A i \in Vessels(block_list') :
          LET b == block_list'[i]
              K == Val(b.params.stenosis_coefficient)
              Rp == Val(Get(b.params.R))
              built0 == BloodVessel_init(b)
              Q_in == AbsOf(newton.yaf[b.inflow_nodes[1].flow_dof + 1])
              flowTerm == Neg(Add(Rp, Mul(K, Q_in)))
              slope == Neg(Mul(K, Q_in))
          IN  /\ K = R(0) =>
                    /\ b.mat.E = Some(SetEntry(SetEntry(ZeroMatrix(3, 5), 0, 3,
                                          RatNeg(Val(b.params.L))), 1, 4,
                                          RatNeg(Val(b.params.C))))
                    /\ b.mat.F = Some(<< <<R(1), RatNeg(Rp), R(-1), R(0), R(0)>>,
                                         <<R(0), R(1), R(0), R(-1), R(0)>>,
                                         <<R(1), RatNeg(Rp), R(0), R(0), R(-1)>> >>)
                    /\ b.mat.dF = Some(ZeroMatrix(3, 5))
              /\ K # R(0) /\ UpdateSolutionDone =>
                    /\ b.mat.E = built0.mat.E
                    /\ SameMatrix(Get(b.mat.F),
                          SetEntry(SetEntry(Get(built0.mat.F), 0, 1, flowTerm),
                                   2, 1, flowTerm))
                    /\ SameMatrix(Get(b.mat.dF),
                          SetEntry(SetEntry(Get(built0.mat.dF), 0, 1, slope), 2, 1, slope))
      ]_vars

\* a vessel with stenosis coefficient 1/5 after update_solution with the
\* inflow 5 of the first Newton update: F[0,1] = -(100 + 5/5), dF[2,1] = -5/5
C26_Witness ==
    \E i \in Vessels(block_list) :
        /\ Val(block_list[i].params.stenosis_coefficient) # R(0)
        /\ pc = "newton"
        /\ newton.iter = Some(1)
        /\ Get(block_list[i].mat.F)[1][2] = R(-101)
        /\ Get(block_list[i].mat.dF)[3][2] = R(-1)

Windkessels(blocks) == {i \in 1..Len(blocks) : blocks[i].kind = "WindkesselBC"}

\* the parameter key of a block at time: the value of its interpolant when it
\* is a sequence, its constant otherwise
ParamAt(block, key, time) ==
    IF block.params.bc_values[key].list
    THEN Spline(block.params.bc_values["t"].items, block.params.bc_values[key].items, time)
    ELSE Val(block.params.bc_values[key])

\* the block whose update_time raised
RaisedUpdateTime(blocks) ==
    {i \in 1..Len(blocks) :
        /\ raised_in = "update_time"
        /\ Len(newton.log) > 0
        /\ newton.log[Len(newton.log)].block = blocks[i].name}

\* the time of the update_time calls of the current step
CurrentTime == SubstepTime(TimeAt(k), time_steps.dt)

\* C27: update_time(t) of a WindkesselBC succeeds whichever of Rp, C, Rd, Pd
\* are sequences, and leaves E[1,2] = -Rd C, F[0,1] = -Rp, F[1,1] = Rd and
\* C[1] = Pd for the values of the parameters at t
C27_WindkesselAnySubset ==
    \A i \in Windkessels(block_list) :
        LET b == block_list[i] IN
        /\ i \notin RaisedUpdateTime(block_list)
        /\ pc = "newton" =>
              /\ Same(Get(b.mat.E)[2][3],
                      Neg(Mul(ParamAt(b, "Rd", CurrentTime), ParamAt(b, "C", CurrentTime))))
              /\ Same(Get(b.mat.F)[1][2], Neg(ParamAt(b, "Rp", CurrentTime)))
              /\ Same(Get(b.mat.F)[2][2], ParamAt(b, "Rd", CurrentTime))
              /\ Same(Get(b.vec.C)[2], ParamAt(b, "Pd", CurrentTime))

Resistances(blocks) == {i \in 1..Len(blocks) : blocks[i].kind = "ResistanceBC"}

\* the global system holds the contributions of this step: a pass of the loop
\* body has assembled them
AssembledNow == pc = "newton" /\ ~IsNone(newton.iter)

\* the row of a ResistanceBC in the global system is P - R Q + c = 0 in the
\* pressure and flow DOF of its node, for R at the current time
ResistanceRow(b, c) ==
    LET row == b.global_row_id[1]
        node == b.inflow_nodes[1]
    IN  /\ \A col \in 0..(Get(integrator).n - 1) :
              /\ Same(GlobalMat(block_list, mat, "F", row, col),
                      IF col = node.pres_dof THEN R(1)
                      ELSE IF col = node.flow_dof THEN Neg(ParamAt(b, "R", CurrentTime))
                      ELSE R(0))
              /\ GlobalMat(block_list, mat, "E", row, col) = R(0)
              /\ GlobalMat(block_list, mat, "dF", row, col) = R(0)
        /\ Same(GlobalC(block_list, mat, row), c)
        \* a computed iterate that passed the termination test satisfies it
        /\ newton.broke /\ ExactVector(newton.yaf) /\ IsExact(c)
              /\ IsExact(ParamAt(b, "R", CurrentTime)) =>
              RatAdd(RatSub(newton.yaf[node.pres_dof + 1],
                            RatMul(ParamAt(b, "R", CurrentTime),
                                   newton.yaf[node.flow_dof + 1])), c) = R(0)

AllConstant(cfg) ==
    \A i \in 1..Len(cfg.boundary_conditions) :
        \A key \in DOMAIN cfg.boundary_conditions[i].bc_values \ {"t"} :
            ~cfg.boundary_conditions[i].bc_values[key].list

NoStenosis(blocks) ==
    \A i \in Vessels(blocks) : Val(blocks[i].params.stenosis_coefficient) = R(0)

\* the pass with loop variable 1 of the first time step of a pulsatile run
\* that starts from np.zeros, on constant boundary conditions
FirstStepSecondPass ==
    /\ entry = "run_from_config"
    /\ phase = "pulsatile"
    /\ GetOpt(parameters.simulation_parameters, "steady_initial") = Some(FALSE)
    /\ AllConstant(parameters)
    /\ k = 0
    /\ pc = "newton"
    /\ newton.iter = Some(1)

\* C22 as stated: with steady_initial false and constant boundary conditions
\* the residual of the first time step is at most the tolerance at the Newton
\* iteration 1 (not later than in the pass with loop variable 1)
C22_ResidualBelowAtolAtOne ==
    FirstStepSecondPass =>
        ~Get(newton.res).nan /\ Get(newton.res).abs <= Get(integrator).atol

\* C22, amended: where moreover no vessel has a stenosis coefficient, the
\* residual of the pass with loop variable 1, after one linear solve, is zero
\* in exact arithmetic and the loop ends there
C22_LinearModelConvergesAtOne ==
    FirstStepSecondPass /\ NoStenosis(block_list) =>
        /\ Get(newton.res) = [nan |-> FALSE, abs |-> 0]
        /\ newton.broke
        /\ newton.evals = 2
        /\ newton.solves = 1

\* the second pass of the first step of a vessel with an RCR outlet, whose E
\* is not zero
C22_Witness ==
    /\ FirstStepSecondPass
    /\ NoStenosis(block_list)
    /\ newton.broke
    /\ \E i \in Windkessels(block_list) : Get(block_list[i].mat.E)[2][3] # R(0)

\* the positions of the calls of op in a log
Positions(log, op) == {i \in 1..Len(log) : log[i].op = op}

\* the residual of the latest pass failed the termination test
TestFailed == Get(newton.res).nan \/ Get(newton.res).abs > Get(integrator).atol

\* C24: within a step update_time is called exactly once on every block, with
\* the time t + alpha_f dt, before any update_solution; in every pass of the
\* Newton loop update_solution is called on every block before the assembly,
\* the residual is evaluated after the assembly, and the solve and the update
\* of the iterate come only after a failed termination test
C24_StepCallOrder ==
    pc = "newton" =>
        LET log == newton.log IN
        /\ \A b \in 1..Len(block_list) :
              Cardinality({i \in Positions(log, "update_time") :
                              log[i].block = block_list[b].name}) = 1
        /\ \A i \in Positions(log, "update_time") :
              /\ log[i].at = RatAdd(TimeAt(k), RatMul(alpha_f, time_steps.dt))
              /\ \A j \in Positions(log, "update_solution") : i < j
        /\ ~IsNone(newton.iter) =>
              /\ Cardinality(Positions(log, "assemble")) = 1
              /\ Cardinality(Positions(log, "residual")) = 1
              /\ Cardinality(Positions(log, "test")) = 1
              /\ \A b \in 1..Len(block_list) :
                    \E i \in Positions(log, "update_solution") :
                        /\ log[i].block = block_list[b].name
                        /\ log[i].at = R(Get(newton.iter))
                        /\ \A j \in Positions(log, "assemble") : i < j
              /\ \A i \in Positions(log, "assemble"), j \in Positions(log, "residual") :
                    i < j
              /\ \A i \in Positions(log, "residual"), j \in Positions(log, "test") :
                    i < j
              /\ \A i \in Positions(log, "solve") \cup Positions(log, "update") :
                    /\ TestFailed
                    /\ \A j \in Positions(log, "test") : j < i
              /\ \A i \in Positions(log, "solve"), j \in Positions(log, "update") : i < j
              /\ IF newton.broke
                 THEN Positions(log, "solve") \cup Positions(log, "update") = {}
                 ELSE /\ Cardinality(Positions(log, "solve")) = 1
                      /\ Cardinality(Positions(log, "update")) = 1

\* a second pass of the loop body that failed the test and solved, on a model
\* of three blocks
C24_Witness ==
    /\ pc = "newton"
    /\ newton.iter = Some(1)
    /\ ~newton.broke
    /\ newton.solves = 2
    /\ Len(block_list) >= 3
    /\ Len(newton.log) = 2 * Len(block_list) + 5

====
